---- MODULE Spec2Model ----
(***************************************************************************)
(* A model of the two notebooks of notebooks/1.missing_data_imputation:    *)
(*   missing_data_imputation_summary_2.ipynb  (Pipeline vs.                *)
(*       ColumnTransformer), and                                           *)
(*   missing_data_imputation_summary_3_grid_search.ipynb (GridSearchCV).   *)
(* The notebooks are sequences of cells that build scikit-learn objects    *)
(* and call fit / transform / score / cross_val_score / GridSearchCV.fit   *)
(* on them.  The objects are modelled as records, the calls as operators   *)
(* that compute what the calls compute, and every executed cell as one     *)
(* action.                                                                 *)
(*                                                                         *)
(* Numbers.  A numeric cell is an integer in fixed point: the value 1.0 is *)
(* Unit, the least common multiple of 1..NRows, so that a mean or a median *)
(* of at most NRows cells is again an integer.  A scaled cell             *)
(* (StandardScaler's output) is the pair <<a, b>> that stands for a/sqrt(b).*)
(***************************************************************************)
EXTENDS Integers, Sequences, FiniteSets, TLC

\* Number of rows of the table read from train.csv.
NRows == 5

\* Largest fold count k tried for a cross-validation.
MaxFolds == 5

RowIds == 1 .. NRows

RECURSIVE Gcd(_, _)
Gcd(a, b) == IF b = 0 THEN a ELSE Gcd(b, a % b)

RECURSIVE LcmUpTo(_)
LcmUpTo(n) == IF n <= 1 THEN 1 ELSE LET l == LcmUpTo(n - 1) IN (l * n) \div Gcd(l, n)

\* 1.0 in the fixed-point representation of numeric cells.
Unit == LcmUpTo(NRows)

----------------------------------------------------------------------------
(* Sequences *)

RECURSIVE SeqSum(_)
SeqSum(s) == IF s = <<>> THEN 0 ELSE Head(s) + SeqSum(Tail(s))

RECURSIVE Concat(_)
Concat(ss) == IF ss = <<>> THEN <<>> ELSE Head(ss) \o Concat(Tail(ss))

Range(s) == {s[i] : i \in 1 .. Len(s)}

\* Insert the pair p = <<key, item>> into the sequence s of pairs ascending by
\* key, after the pairs of equal key.
RECURSIVE InsertSorted(_, _)
InsertSorted(p, s) ==
    IF s = <<>> THEN <<p>>
    ELSE IF p[1] < Head(s)[1] THEN <<p>> \o s
    ELSE <<Head(s)>> \o InsertSorted(p, Tail(s))

\* The pairs <<key, item>> of s ascending by key; pairs of equal key keep
\* their order (a stable sort).
RECURSIVE SortPairs(_)
SortPairs(s) ==
    IF s = <<>> THEN <<>>
    ELSE InsertSorted(s[Len(s)], SortPairs(SubSeq(s, 1, Len(s) - 1)))

\* The integers of s ascending.
SortInts(s) ==
    LET p == SortPairs([i \in 1 .. Len(s) |-> <<s[i], s[i]>>])
    IN [i \in 1 .. Len(s) |-> p[i][2]]

\* s without repeated elements, first occurrences kept.
RECURSIVE Dedup(_)
Dedup(s) ==
    IF s = <<>> THEN <<>>
    ELSE LET d == Dedup(SubSeq(s, 1, Len(s) - 1))
         IN IF s[Len(s)] \in Range(d) THEN d ELSE Append(d, s[Len(s)])

Count(s, x) == Cardinality({i \in 1 .. Len(s) : s[i] = x})

----------------------------------------------------------------------------
(* Cells, columns, tables *)

\* np.nan in a column of dtype number (genuine values are > 0).
NumNaN == -1

\* np.nan in a column of dtype object.
CatNaN == "NaN"

\* NaN in a scaled column: a genuine scaled cell <<a, b>> has b > 0.
ScaledNaN == <<0, 0>>

NaNOf(dtype) ==
    CASE dtype = "number" -> NumNaN
      [] dtype = "object" -> CatNaN
      [] OTHER -> ScaledNaN

\* The strings of the model in Python's string order.
PyStrOrder ==
    <<"Grvl", "Missing", "NaN", "Pave", "RL", "RM",
      "add_indicator", "alph", "alpha", "cat_pipe", "imputer", "lasso", "num_pipe",
      "preprocess", "scaler", "strategy">>

StrRank(s) == CHOOSE i \in 1 .. Len(PyStrOrder) : PyStrOrder[i] = s

CellRank(dtype, v) == IF dtype = "object" THEN StrRank(v) ELSE v

\* A column: its name (a tuple of strings: <<"Alley">>, <<"Alley", "_NA">>),
\* its dtype ("number", "object" or "scaled") and its cells, one per row.
Column(name, dtype, vals) == [name |-> name, dtype |-> dtype, vals |-> vals]

\* A table: the row identifiers (the DataFrame's index) and the columns.
Table(ids, cols) == [ids |-> ids, cols |-> cols]

NoTable == Table(<<>>, <<>>)

ColNames(T) == [j \in 1 .. Len(T.cols) |-> T.cols[j].name]

NCols(T) == Len(T.cols)

IsMissing(col, i) == col.vals[i] = NaNOf(col.dtype)

\* The non-missing cells of a column, in row order.
Present(col) ==
    LET keep(i) == ~IsMissing(col, i)
        idx == SelectSeq([i \in 1 .. Len(col.vals) |-> i], keep)
    IN [k \in 1 .. Len(idx) |-> col.vals[idx[k]]]

\* X.iloc[positions]: the rows at the given positions, in that order.
TakeRows(T, positions) ==
    Table([k \in 1 .. Len(positions) |-> T.ids[positions[k]]],
          [j \in 1 .. Len(T.cols) |->
              Column(T.cols[j].name, T.cols[j].dtype,
                     [k \in 1 .. Len(positions) |-> T.cols[j].vals[positions[k]]])])

\* The positions of the rows of T whose identifier is in S, ascending.
PositionsOf(T, S) ==
    LET in(i) == T.ids[i] \in S
    IN SelectSeq([i \in 1 .. Len(T.ids) |-> i], in)

HasColumn(T, name) == \E j \in 1 .. Len(T.cols) : T.cols[j].name = name

ColumnNamed(T, name) == T.cols[CHOOSE j \in 1 .. Len(T.cols) : T.cols[j].name = name]

\* X[names]: the named columns in the order of names.
SelectCols(T, names) ==
    Table(T.ids, [k \in 1 .. Len(names) |-> ColumnNamed(T, names[k])])

\* np.hstack with the tables taken in the reverse of the order given; C10
\* tells it from HStack.
HStackReversed(ids, tables) ==
    Table(ids, Concat([k \in 1 .. Len(tables) |-> tables[Len(tables) + 1 - k].cols]))

\* np.hstack that keeps the columns of the first table only; C11 tells it
\* from HStack.
HStackFirst(ids, tables) ==
    Table(ids, IF tables = <<>> THEN <<>> ELSE tables[1].cols)

\* np.hstack: the columns of the tables side by side, in the order given.
HStack(ids, tables) ==
    Table(ids, Concat([k \in 1 .. Len(tables) |-> tables[k].cols]))

----------------------------------------------------------------------------
(* The scikit-learn objects the notebooks construct *)

SimpleImputer(strategy, add_indicator, fill_value) ==
    [kind |-> "SimpleImputer", strategy |-> strategy,
     add_indicator |-> add_indicator, fill_value |-> fill_value]

StandardScaler == [kind |-> "StandardScaler"]

OneHotEncoder == [kind |-> "OneHotEncoder", handle_unknown |-> "ignore"]

Lasso(max_iter) == [kind |-> "Lasso", alpha |-> 1, max_iter |-> max_iter]

\* A step of a Pipeline: (name, estimator).
Step(name, est) == [name |-> name, est |-> est]

Pipeline(steps) == [kind |-> "Pipeline", steps |-> steps]

\* An entry of a ColumnTransformer: (name, transformer, columns).
Entry(name, est, cols) == [name |-> name, est |-> est, cols |-> cols]

ColumnTransformer(transformers) ==
    [kind |-> "ColumnTransformer", transformers |-> transformers]

\* SimpleImputer's fill_value=None.
None == "None"

IsTransformer(est) ==
    est.kind \in {"SimpleImputer", "StandardScaler", "OneHotEncoder",
                  "Pipeline", "ColumnTransformer"}

\* What a fit or a transform returns: err is "" or the exception raised;
\* learned is the fitted state; out is the transformed table (fit_transform's
\* result for a transformer); log lists, in the order they happened, the fit
\* calls made on the steps: [step |-> path of names, input |-> table handed].
Result(err, learned, out, log) ==
    [err |-> err, learned |-> learned, out |-> out, log |-> log]

Raised(err, log) == Result(err, <<>>, NoTable, log)

FitEvent(path, T) == [step |-> path, input |-> T]

----------------------------------------------------------------------------
(* SimpleImputer *)

Strategies == {"mean", "median", "most_frequent", "constant"}

\* check_array (ensure_min_features=1), which the imputer, the scaler, the
\* encoder and the regression run on their input: a table of no column is
\* rejected.
NoFeature == "ValueError: Found array with 0 feature(s)"

Mean(vals) == SeqSum(vals) \div Len(vals)

Median(vals) ==
    LET s == SortInts(vals)
        n == Len(s)
    IN IF n % 2 = 1 THEN s[(n + 1) \div 2]
       ELSE (s[n \div 2] + s[n \div 2 + 1]) \div 2

\* scipy.stats.mode: the most frequent value, the smallest one among equals.
Mode(dtype, vals) ==
    LET best == {v \in Range(vals) :
                    \A w \in Range(vals) : Count(vals, w) <= Count(vals, v)}
    IN CHOOSE v \in best :
          \A w \in best : CellRank(dtype, v) <= CellRank(dtype, w)

\* The value a constant imputer fills with: fill_value, or by default 0 for
\* numbers and "missing_value" for objects.
FillValue(params, dtype) ==
    IF params.fill_value # None THEN params.fill_value
    ELSE IF dtype = "object" THEN "missing_value" ELSE 0

\* An imputer that fills with fill_value whenever one is given, whatever the
\* strategy; C26 tells it from Statistic.
StatisticPrefersFillValue(params, col) ==
    LET vals == Present(col)
    IN IF params.strategy = "constant" \/ params.fill_value # None
           THEN FillValue(params, col.dtype)
       ELSE IF vals = <<>> THEN NaNOf(col.dtype)
       ELSE CASE params.strategy = "mean" -> Mean(vals)
              [] params.strategy = "median" -> Median(vals)
              [] OTHER -> Mode(col.dtype, vals)

\* statistics_[j]: the fill value learned for one column; NaN for a column
\* with no observed value (unless the strategy is constant).
Statistic(params, col) ==
    LET vals == Present(col)
    IN IF params.strategy = "constant" THEN FillValue(params, col.dtype)
       ELSE IF vals = <<>> THEN NaNOf(col.dtype)
       ELSE CASE params.strategy = "mean" -> Mean(vals)
              [] params.strategy = "median" -> Median(vals)
              [] OTHER -> Mode(col.dtype, vals)

HasMissing(col) == \E i \in 1 .. Len(col.vals) : IsMissing(col, i)

\* An imputer that never looks at the name of its strategy and treats an
\* unknown one as most_frequent; C15 tells it from ImputerCheck.
ImputerCheckAnyStrategy(params, T) ==
    IF T.cols = <<>> THEN NoFeature
    ELSE IF params.strategy \in {"mean", "median"}
            /\ \E j \in 1 .. Len(T.cols) : T.cols[j].dtype = "object"
        THEN "ValueError: Cannot use mean strategy with non-numeric data"
    ELSE IF params.strategy = "constant" /\ params.fill_value # None
            /\ \E j \in 1 .. Len(T.cols) : T.cols[j].dtype # "object"
        THEN "ValueError: fill_value should be a numerical value"
    ELSE ""

\* SimpleImputer._validate_input: the exception raised for this input, or "".
ImputerCheck(params, T) ==
    IF params.strategy \notin Strategies
        THEN "ValueError: Can only use these strategies"
    ELSE IF T.cols = <<>> THEN NoFeature
    ELSE IF params.strategy \in {"mean", "median"}
            /\ \E j \in 1 .. Len(T.cols) : T.cols[j].dtype = "object"
        THEN "ValueError: Cannot use mean strategy with non-numeric data"
    ELSE IF params.strategy = "constant" /\ params.fill_value # None
            /\ \E j \in 1 .. Len(T.cols) : T.cols[j].dtype # "object"
        THEN "ValueError: fill_value should be a numerical value"
    ELSE ""

\* An imputer whose indicator columns are made for the columns with a
\* missing cell in the table it transforms, not in the table it was fit on;
\* C27 tells it from ImputerTransform.
ImputerTransformFlagsSeen(params, learned, T) ==
    IF ImputerCheck(params, T) # "" THEN Raised(ImputerCheck(params, T), <<>>)
    ELSE IF Len(T.cols) # Len(learned.statistics)
        THEN Raised("ValueError: X has a different number of features", <<>>)
    ELSE
    LET valid(j) == params.strategy = "constant"
                    \/ learned.statistics[j] # NaNOf(T.cols[j].dtype)
        kept == SelectSeq([j \in 1 .. Len(T.cols) |-> j], valid)
        filled(j) ==
            Column(T.cols[j].name, T.cols[j].dtype,
                   [i \in 1 .. Len(T.ids) |->
                       IF IsMissing(T.cols[j], i) THEN learned.statistics[j]
                       ELSE T.cols[j].vals[i]])
        indicator(j) ==
            Column(T.cols[j].name \o <<"_NA">>, "number",
                   [i \in 1 .. Len(T.ids) |->
                       IF IsMissing(T.cols[j], i) THEN Unit ELSE 0])
        seen(j) == params.add_indicator /\ HasMissing(T.cols[j])
        features == SelectSeq([j \in 1 .. Len(T.cols) |-> j], seen)
        imputed == [k \in 1 .. Len(kept) |-> filled(kept[k])]
        flags == [k \in 1 .. Len(features) |-> indicator(features[k])]
    IN Result("", learned, Table(T.ids, imputed \o flags), <<>>)

\* SimpleImputer.transform with the learned state: missing cells are filled
\* with the column's statistic, a column whose statistic is NaN is dropped,
\* and with add_indicator one indicator column follows for every column
\* that had a missing cell when the imputer was fit.
ImputerTransform(params, learned, T) ==
    IF ImputerCheck(params, T) # "" THEN Raised(ImputerCheck(params, T), <<>>)
    ELSE IF Len(T.cols) # Len(learned.statistics)
        THEN Raised("ValueError: X has a different number of features", <<>>)
    ELSE
    LET valid(j) == params.strategy = "constant"
                    \/ learned.statistics[j] # NaNOf(T.cols[j].dtype)
        kept == SelectSeq([j \in 1 .. Len(T.cols) |-> j], valid)
        filled(j) ==
            Column(T.cols[j].name, T.cols[j].dtype,
                   [i \in 1 .. Len(T.ids) |->
                       IF IsMissing(T.cols[j], i) THEN learned.statistics[j]
                       ELSE T.cols[j].vals[i]])
        indicator(j) ==
            Column(T.cols[j].name \o <<"_NA">>, "number",
                   [i \in 1 .. Len(T.ids) |->
                       IF IsMissing(T.cols[j], i) THEN Unit ELSE 0])
        imputed == [k \in 1 .. Len(kept) |-> filled(kept[k])]
        flags == [k \in 1 .. Len(learned.features) |-> indicator(learned.features[k])]
    IN Result("", learned, Table(T.ids, imputed \o flags), <<>>)

\* SimpleImputer.fit: statistics_ from the table it is handed, and
\* indicator_.features_ (the columns with a missing cell in that table).
ImputerLearn(params, T) ==
    LET missing(j) == HasMissing(T.cols[j])
    IN [statistics |-> [j \in 1 .. Len(T.cols) |-> Statistic(params, T.cols[j])],
        features |-> IF params.add_indicator
                        THEN SelectSeq([j \in 1 .. Len(T.cols) |-> j], missing)
                        ELSE <<>>]

ImputerFit(params, T, path) ==
    IF ImputerCheck(params, T) # "" 
        THEN Raised(ImputerCheck(params, T), <<FitEvent(path, T)>>)
    ELSE LET learned == ImputerLearn(params, T)
         IN Result("", learned, ImputerTransform(params, learned, T).out,
                   <<FitEvent(path, T)>>)

----------------------------------------------------------------------------
(* StandardScaler *)

ScalerCheck(T) ==
    IF T.cols = <<>> THEN NoFeature
    ELSE IF \E j \in 1 .. Len(T.cols) : T.cols[j].dtype # "number"
        THEN "ValueError: could not convert string to float"
    ELSE ""

\* mean_ and var_ of one column, kept exactly as the count n, the sum S and
\* the sum of squares Q of its observed cells: mean_ = S/n, var_ = Q/n - (S/n)^2.
ScalerLearn(T) ==
    [j \in 1 .. Len(T.cols) |->
        LET vals == Present(T.cols[j])
        IN [n |-> Len(vals), S |-> SeqSum(vals),
            Q |-> SeqSum([i \in 1 .. Len(vals) |-> vals[i] * vals[i]])]]

\* (x - mean_) / scale_ as the pair <<a, b>> = a/sqrt(b); scale_ is 1 for a
\* column of zero variance.
Scaled(st, x) ==
    LET a == st.n * x - st.S
        b == st.n * st.Q - st.S * st.S
    IN IF x = NumNaN \/ st.n = 0 THEN ScaledNaN
       ELSE IF b = 0 THEN <<a, st.n * st.n>> ELSE <<a, b>>

ScalerTransform(learned, T) ==
    IF ScalerCheck(T) # "" THEN Raised(ScalerCheck(T), <<>>)
    ELSE IF Len(T.cols) # Len(learned)
        THEN Raised("ValueError: X has a different number of features", <<>>)
    ELSE Result("", learned,
                Table(T.ids,
                      [j \in 1 .. Len(T.cols) |->
                          Column(T.cols[j].name, "scaled",
                                 [i \in 1 .. Len(T.ids) |->
                                     Scaled(learned[j], T.cols[j].vals[i])])]),
                <<>>)

ScalerFit(T, path) ==
    IF ScalerCheck(T) # "" THEN Raised(ScalerCheck(T), <<FitEvent(path, T)>>)
    ELSE LET learned == ScalerLearn(T)
         IN Result("", learned, ScalerTransform(learned, T).out, <<FitEvent(path, T)>>)

----------------------------------------------------------------------------
(* OneHotEncoder(handle_unknown='ignore') *)

EncoderCheck(T) ==
    IF T.cols = <<>> THEN NoFeature
    ELSE IF \E j \in 1 .. Len(T.cols) : HasMissing(T.cols[j])
        THEN "ValueError: Input contains NaN"
    ELSE IF \E j \in 1 .. Len(T.cols) : T.cols[j].dtype # "object"
        THEN "ValueError: unsupported column dtype"
    ELSE ""

\* categories_[j]: the values of column j, sorted, each once.
Categories(col) ==
    LET d == Dedup(col.vals)
        p == SortPairs([i \in 1 .. Len(d) |-> <<StrRank(d[i]), d[i]>>])
    IN [i \in 1 .. Len(d) |-> p[i][2]]

EncoderLearn(T) == [categories |-> [j \in 1 .. Len(T.cols) |-> Categories(T.cols[j])]]

\* One 0/1 column per learned category of each input column; a value not
\* seen in fit gives zeros in every column of its group.
EncoderTransform(learned, T) ==
    IF EncoderCheck(T) # "" THEN Raised(EncoderCheck(T), <<>>)
    ELSE IF Len(T.cols) # Len(learned.categories)
        THEN Raised("ValueError: X has a different number of features", <<>>)
    ELSE
    LET group(j) ==
            [c \in 1 .. Len(learned.categories[j]) |->
                Column(T.cols[j].name \o <<learned.categories[j][c]>>, "number",
                       [i \in 1 .. Len(T.ids) |->
                           IF T.cols[j].vals[i] = learned.categories[j][c]
                               THEN Unit ELSE 0])]
    IN Result("", learned,
              Table(T.ids, Concat([j \in 1 .. Len(T.cols) |-> group(j)])), <<>>)

EncoderFit(T, path) ==
    IF EncoderCheck(T) # "" THEN Raised(EncoderCheck(T), <<FitEvent(path, T)>>)
    ELSE LET learned == EncoderLearn(T)
         IN Result("", learned, EncoderTransform(learned, T).out, <<FitEvent(path, T)>>)

----------------------------------------------------------------------------
(* Lasso.  The repository holds no code of the regression itself; its fit   *)
(* and its score are kept as deterministic functions of exactly the tables  *)
(* they are handed: coef_ has one entry per feature, computed from that     *)
(* feature's cells and the target, and the score is computed from the       *)
(* predictions on the scored rows and their target.                         *)

\* Modulus of the arithmetic that stands for the regression's numbers.
DigestMod == 97

\* Number of distinct values a score takes: 0 .. ScoreLevels - 1.
ScoreLevels == 3

CellCode(dtype, v) ==
    IF dtype = "scaled" THEN (v[1] + v[2]) % DigestMod ELSE v % DigestMod

LassoCheck(T) ==
    IF T.cols = <<>> THEN NoFeature
    ELSE IF \E j \in 1 .. Len(T.cols) : T.cols[j].dtype = "object"
        THEN "ValueError: could not convert string to float"
    ELSE IF \E j \in 1 .. Len(T.cols) : HasMissing(T.cols[j])
        THEN "ValueError: Input contains NaN"
    ELSE ""

LassoLearn(T, y) ==
    [coef |-> [j \in 1 .. Len(T.cols) |->
                  SeqSum([i \in 1 .. Len(T.ids) |->
                      CellCode(T.cols[j].dtype, T.cols[j].vals[i]) * (y[i] % DigestMod)])
                  % DigestMod],
     intercept |-> SeqSum(y) % DigestMod]

LassoFit(T, y, path) ==
    IF LassoCheck(T) # "" THEN Raised(LassoCheck(T), <<FitEvent(path, T)>>)
    ELSE Result("", LassoLearn(T, y), NoTable, <<FitEvent(path, T)>>)

Predict(learned, T, i) ==
    (SeqSum([j \in 1 .. Len(T.cols) |->
        learned.coef[j] * CellCode(T.cols[j].dtype, T.cols[j].vals[i])])
     + learned.intercept) % DigestMod

\* What a score call returns: err is "" or the exception raised.
Scored(err, score) == [err |-> err, score |-> score]

\* Lasso.score(X, y).
LassoScore(learned, T, y) ==
    IF LassoCheck(T) # "" THEN Scored(LassoCheck(T), 0)
    ELSE IF Len(T.cols) # Len(learned.coef)
        THEN Scored("ValueError: X has a different number of features", 0)
    ELSE Scored("", SeqSum([i \in 1 .. Len(T.ids) |->
                        (Predict(learned, T, i) + y[i]) % DigestMod]) % ScoreLevels)

----------------------------------------------------------------------------
(* Pipeline and ColumnTransformer *)

RECURSIVE Fit(_, _, _, _)
RECURSIVE FitSteps(_, _, _, _, _, _, _)
RECURSIVE FitEntries(_, _, _, _, _, _, _, _)

\* A chain that hands every step the table the chain itself was handed; C7
\* tells it from StepOutput.
StepOutputUnchained(r, Xt) == Xt

\* The table the next step of a Pipeline is handed: what the step just fit
\* returned from fit_transform.
StepOutput(r, Xt) == r.out

\* Pipeline._fit and the final step's fit: steps i, i+1, ... are fit in
\* order, each on the table Xt that the steps before it produced.
FitSteps(steps, i, Xt, y, path, learned, log) ==
    IF i > Len(steps) THEN Result("", learned, Xt, log)
    ELSE LET r == Fit(steps[i].est, Xt, y, Append(path, steps[i].name))
         IN IF r.err # "" THEN Raised(r.err, log \o r.log)
            ELSE FitSteps(steps, i + 1, StepOutput(r, Xt), y, path,
                          Append(learned, r.learned), log \o r.log)

\* Pipeline._validate_steps: every step but the last must be a transformer.
PipelineCheck(est) ==
    IF \E i \in 1 .. Len(est.steps) - 1 : ~IsTransformer(est.steps[i].est)
        THEN "TypeError: All intermediate steps should be transformers"
    ELSE ""

\* A Pipeline that finds out that a step is no transformer only when it
\* comes to that step, the steps before it being fit by then; C20 tells it
\* from PipelineFit.
PipelineFitLateCheck(est, T, y, path) ==
    LET bad == {i \in 1 .. Len(est.steps) - 1 : ~IsTransformer(est.steps[i].est)}
        first == CHOOSE i \in bad : \A j \in bad : i <= j
        before == FitSteps(SubSeq(est.steps, 1, first - 1), 1, T, y, path, <<>>, <<>>)
    IN IF bad = {} THEN FitSteps(est.steps, 1, T, y, path, <<>>, <<>>)
       ELSE IF before.err # "" THEN before
       ELSE Raised(PipelineCheck(est), before.log)

\* A Pipeline that runs the fit of its steps a second time when the first
\* run raised; C19 tells it from PipelineFit.
PipelineFitRetries(est, T, y, path) ==
    LET r == FitSteps(est.steps, 1, T, y, path, <<>>, <<>>)
    IN IF PipelineCheck(est) # "" THEN Raised(PipelineCheck(est), <<>>)
       ELSE IF r.err # "" THEN Raised(r.err, r.log \o r.log)
       ELSE r

PipelineFit(est, T, y, path) ==
    IF PipelineCheck(est) # "" THEN Raised(PipelineCheck(est), <<>>)
    ELSE FitSteps(est.steps, 1, T, y, path, <<>>, <<>>)

\* A ColumnTransformer that hands every entry the whole table, the columns of
\* the other groups with it; C9 tells it from EntryInput.
EntryInputWhole(T, entry, outs) == T

\* The table an entry of a ColumnTransformer is handed: the columns of its
\* group, taken from the table the ColumnTransformer itself was handed.
EntryInput(T, entry, outs) == SelectCols(T, entry.cols)

\* A ColumnTransformer that hands an empty selection of columns to the
\* entry's transformer, which rejects a table of no columns; C12 tells it
\* from FitEntries.
FitEntriesEmptyRaises(entries, k, T, y, path, learned, outs, log) ==
    IF k > Len(entries) THEN Result("", learned, HStack(T.ids, outs), log)
    ELSE IF entries[k].cols = <<>>
        THEN Raised(NoFeature, log)
    ELSE LET r == Fit(entries[k].est, EntryInput(T, entries[k], outs), y,
                      Append(path, entries[k].name))
         IN IF r.err # "" THEN Raised(r.err, log \o r.log)
            ELSE FitEntries(entries, k + 1, T, y, path, Append(learned, r.learned),
                            Append(outs, r.out), log \o r.log)

\* ColumnTransformer._fit_transform: every entry is fit on its own columns
\* of T; an entry with no columns is skipped.
FitEntries(entries, k, T, y, path, learned, outs, log) ==
    IF k > Len(entries) THEN Result("", learned, HStack(T.ids, outs), log)
    ELSE IF entries[k].cols = <<>>
        THEN FitEntries(entries, k + 1, T, y, path, Append(learned, <<>>),
                        Append(outs, Table(T.ids, <<>>)), log)
    ELSE LET r == Fit(entries[k].est, EntryInput(T, entries[k], outs), y,
                      Append(path, entries[k].name))
         IN IF r.err # "" THEN Raised(r.err, log \o r.log)
            ELSE FitEntries(entries, k + 1, T, y, path, Append(learned, r.learned),
                            Append(outs, r.out), log \o r.log)

\* ColumnTransformer._validate_transformers and the column lookup.
ColumnTransformerCheck(est, T) ==
    IF \E k \in 1 .. Len(est.transformers) : ~IsTransformer(est.transformers[k].est)
        THEN "TypeError: All estimators should implement fit and transform"
    ELSE IF \E k \in 1 .. Len(est.transformers) :
               \E c \in 1 .. Len(est.transformers[k].cols) :
                   ~HasColumn(T, est.transformers[k].cols[c])
        THEN "ValueError: A given column is not a column of the dataframe"
    ELSE ""

\* A ColumnTransformer that looks the columns of an entry up only when it
\* comes to fit that entry, the entries before it being fit by then; C16 tells
\* it from ColumnTransformerFit.
ColumnTransformerFitLateLookup(est, T, y, path) ==
    LET absent(k) == \E c \in 1 .. Len(est.transformers[k].cols) :
                        ~HasColumn(T, est.transformers[k].cols[c])
        bad == {k \in 1 .. Len(est.transformers) : absent(k)}
        first == CHOOSE k \in bad : \A l \in bad : k <= l
        before == FitEntries(SubSeq(est.transformers, 1, first - 1), 1, T, y, path,
                             <<>>, <<>>, <<>>)
    IN IF bad = {}
          THEN FitEntries(est.transformers, 1, T, y, path, <<>>, <<>>, <<>>)
       ELSE IF before.err # "" THEN before
       ELSE Raised("ValueError: A given column is not a column of the dataframe",
                   before.log)

ColumnTransformerFit(est, T, y, path) ==
    IF ColumnTransformerCheck(est, T) # ""
        THEN Raised(ColumnTransformerCheck(est, T), <<>>)
    ELSE FitEntries(est.transformers, 1, T, y, path, <<>>, <<>>, <<>>)

\* est.fit(T, y) (fit_transform for a transformer).
Fit(est, T, y, path) ==
    CASE est.kind = "SimpleImputer" -> ImputerFit(est, T, path)
      [] est.kind = "StandardScaler" -> ScalerFit(T, path)
      [] est.kind = "OneHotEncoder" -> EncoderFit(T, path)
      [] est.kind = "Lasso" -> LassoFit(T, y, path)
      [] est.kind = "Pipeline" -> PipelineFit(est, T, y, path)
      [] OTHER -> ColumnTransformerFit(est, T, y, path)

RECURSIVE Transform(_, _, _)
RECURSIVE TransformSteps(_, _, _, _)
RECURSIVE TransformEntries(_, _, _, _, _)

\* The steps i, i+1, ... of a fitted Pipeline applied in order to Xt.
TransformSteps(steps, learned, i, Xt) ==
    IF i > Len(steps) THEN Result("", learned, Xt, <<>>)
    ELSE LET r == Transform(steps[i].est, learned[i], Xt)
         IN IF r.err # "" THEN Raised(r.err, <<>>)
            ELSE TransformSteps(steps, learned, i + 1, r.out)

\* The entries of a fitted ColumnTransformer applied to their columns of T.
TransformEntries(entries, learned, k, T, outs) ==
    IF k > Len(entries) THEN Result("", learned, HStack(T.ids, outs), <<>>)
    ELSE IF entries[k].cols = <<>>
        THEN TransformEntries(entries, learned, k + 1, T, Append(outs, Table(T.ids, <<>>)))
    ELSE LET r == Transform(entries[k].est, learned[k], SelectCols(T, entries[k].cols))
         IN IF r.err # "" THEN Raised(r.err, <<>>)
            ELSE TransformEntries(entries, learned, k + 1, T, Append(outs, r.out))

\* est.transform(T) with the state est learned in fit.
Transform(est, learned, T) ==
    CASE est.kind = "SimpleImputer" -> ImputerTransform(est, learned, T)
      [] est.kind = "StandardScaler" -> ScalerTransform(learned, T)
      [] est.kind = "OneHotEncoder" -> EncoderTransform(learned, T)
      [] est.kind = "Lasso" ->
            Raised("AttributeError: 'Lasso' object has no attribute 'transform'", <<>>)
      [] est.kind = "Pipeline" -> TransformSteps(est.steps, learned, 1, T)
      [] OTHER ->
            IF ColumnTransformerCheck(est, T) # ""
                THEN Raised(ColumnTransformerCheck(est, T), <<>>)
            ELSE TransformEntries(est.transformers, learned, 1, T, <<>>)

\* The steps of a Pipeline before its last one.
Front(steps) == SubSeq(steps, 1, Len(steps) - 1)

\* A Pipeline whose score hands the table as it is to the last step; C23
\* tells it from PipelineScore.
PipelineScoreRaw(est, learned, T, y) ==
    IF est.steps[Len(est.steps)].est.kind # "Lasso"
        THEN Scored("AttributeError: the final step has no score", 0)
    ELSE LassoScore(learned[Len(est.steps)], T, y)

\* Pipeline.score(T, y): T goes through the fitted steps before the last,
\* and the last step scores the result.
PipelineScore(est, learned, T, y) ==
    LET r == TransformSteps(Front(est.steps), learned, 1, T)
    IN IF est.steps[Len(est.steps)].est.kind # "Lasso"
           THEN Scored("AttributeError: the final step has no score", 0)
       ELSE IF r.err # "" THEN Scored(r.err, 0)
       ELSE LassoScore(learned[Len(est.steps)], r.out, y)

----------------------------------------------------------------------------
(* The data: df = pd.read_csv('../data/house_price/train.csv') *)

\* Four of the table's columns, in the table's order; LotFrontage and Alley
\* are columns with missing cells.
num_cols == << <<"MSSubClass">>, <<"LotFrontage">> >>

cat_cols == << <<"MSZoning">>, <<"Alley">> >>

\* The sets of rows in which LotFrontage may be missing.
NumMissingChoices == {{}, {2, NRows}}

\* The sets of rows in which Alley may be missing (in the real table most
\* of its cells are).
CatMissingChoices == {{2}, RowIds \ {1}}

\* df.drop('SalePrice', axis=1) with the given missing cells.
DataFrame(numNa, catNa) ==
    Table([r \in RowIds |-> r],
          << Column(<<"MSSubClass">>, "number", [r \in RowIds |-> Unit * (1 + (r % 2))]),
             Column(<<"MSZoning">>, "object",
                    [r \in RowIds |-> IF r % 3 = 1 THEN "RM" ELSE "RL"]),
             Column(<<"LotFrontage">>, "number",
                    [r \in RowIds |-> IF r \in numNa THEN NumNaN ELSE Unit * (1 + (r % 3))]),
             Column(<<"Alley">>, "object",
                    [r \in RowIds |-> IF r \in catNa THEN CatNaN
                                      ELSE IF r % 2 = 0 THEN "Grvl" ELSE "Pave"]) >>)

\* The sets of rows in which MasVnrArea may be missing.
MasVnrMissingChoices == {{1}, {3, 4}}

\* The numeric columns of the table as summary.md selects them: MSSubClass
\* has no missing cell, LotFrontage and MasVnrArea may have some.
NumericFrame(lotNa, masNa) ==
    Table([r \in RowIds |-> r],
          << Column(<<"MSSubClass">>, "number", [r \in RowIds |-> Unit * (1 + (r % 2))]),
             Column(<<"LotFrontage">>, "number",
                    [r \in RowIds |-> IF r \in lotNa THEN NumNaN ELSE Unit * (1 + (r % 3))]),
             Column(<<"MasVnrArea">>, "number",
                    [r \in RowIds |-> IF r \in masNa THEN NumNaN ELSE Unit * (r % 2)]) >>)

\* X_train.select_dtypes('number').columns of that table.
NumericCols == << <<"MSSubClass">>, <<"LotFrontage">>, <<"MasVnrArea">> >>

\* num_cols[X_train[num_cols].isna().mean() > 0]: the columns among cols
\* with a missing cell in T.
ColsWithNa(T, cols) ==
    LET withNa(c) == HasMissing(ColumnNamed(T, c))
    IN SelectSeq(cols, withNa)

\* df['SalePrice'], by row identifier.
SalePrice == [r \in RowIds |-> 1 + ((r * r) % 4)]

\* The target values of the rows of T, in T's row order.
TargetOf(target, T) == [i \in 1 .. Len(T.ids) |-> target[T.ids[i]]]

\* A split whose training partition keeps the held-out rows; C5 tells it from
\* TrainRows.
TrainRowsAll(held) == RowIds

\* The rows of X_train: the ones train_test_split did not hold out.
TrainRows(held) == RowIds \ held

\* train_test_split(test_size=0.3): the number of held-out rows, ceil(0.3 n).
NTest(n) == (3 * n + 9) \div 10

\* The held-out row sets train_test_split may draw.
TestChoices == {S \in SUBSET RowIds : Cardinality(S) = NTest(NRows)}

----------------------------------------------------------------------------
(* Parameters: get_params / set_params / clone *)

\* The result of set_params: err is "" or the exception raised.
Configured(err, est) == [err |-> err, est |-> est]

InvalidParameter == "ValueError: Invalid parameter"

RECURSIVE SetParamByStepName(_, _, _)

\* A set_params that finds the step by its own name alone, wherever it is
\* nested, and so writes into every step of that name; C24 tells it from
\* SetParam.
SetParamByStepName(est, path, value) ==
    LET name == path[Len(path) - 1]
        key == path[Len(path)]
        inner(n, e) ==
            IF e.kind \in {"Pipeline", "ColumnTransformer"}
                THEN SetParamByStepName(e, path, value).est
            ELSE IF n = name /\ key \in DOMAIN e THEN [e EXCEPT ![key] = value]
            ELSE e
    IN IF est.kind = "Pipeline"
           THEN Configured("", [est EXCEPT !.steps =
                    [i \in 1 .. Len(est.steps) |->
                        [est.steps[i] EXCEPT !.est = inner(est.steps[i].name, @)]]])
       ELSE IF est.kind = "ColumnTransformer"
           THEN Configured("", [est EXCEPT !.transformers =
                    [k \in 1 .. Len(est.transformers) |->
                        [est.transformers[k] EXCEPT
                            !.est = inner(est.transformers[k].name, @)]]])
       ELSE Configured(InvalidParameter, est)

RECURSIVE SetParam(_, _, _)

\* est.set_params(**{path joined by '__': value}): the path's first names
\* select nested steps (entries) by name, its last name is the parameter.
SetParam(est, path, value) ==
    IF Len(path) = 1 THEN
        IF est.kind \notin {"Pipeline", "ColumnTransformer"} /\ path[1] \in DOMAIN est
               /\ path[1] # "kind"
            THEN Configured("", [est EXCEPT ![path[1]] = value])
        ELSE Configured(InvalidParameter, est)
    ELSE IF est.kind = "Pipeline" THEN
        IF \E i \in 1 .. Len(est.steps) : est.steps[i].name = path[1] THEN
            LET i == CHOOSE i \in 1 .. Len(est.steps) : est.steps[i].name = path[1]
                r == SetParam(est.steps[i].est, Tail(path), value)
            IN Configured(r.err, [est EXCEPT !.steps[i].est = r.est])
        ELSE Configured(InvalidParameter, est)
    ELSE IF est.kind = "ColumnTransformer" THEN
        IF \E k \in 1 .. Len(est.transformers) : est.transformers[k].name = path[1] THEN
            LET k == CHOOSE k \in 1 .. Len(est.transformers) :
                        est.transformers[k].name = path[1]
                r == SetParam(est.transformers[k].est, Tail(path), value)
            IN Configured(r.err, [est EXCEPT !.transformers[k].est = r.est])
        ELSE Configured(InvalidParameter, est)
    ELSE Configured(InvalidParameter, est)

RECURSIVE SetParams(_, _, _)

\* est.set_params(**params): the items of params applied from item i on.
SetParams(est, params, i) ==
    IF i > Len(params) THEN Configured("", est)
    ELSE LET r == SetParam(est, params[i].key, params[i].value)
         IN IF r.err # "" THEN r ELSE SetParams(r.est, params, i + 1)

----------------------------------------------------------------------------
(* ParameterGrid *)

\* One key of a parameter grid with its candidate values, in declared order.
GridItem(key, values) == [key |-> key, values |-> values]

\* The position of a key in Python's order of the joined strings.
RECURSIVE KeyRank(_)
KeyRank(path) ==
    IF path = <<>> THEN 0
    ELSE KeyRank(SubSeq(path, 1, Len(path) - 1)) * (Len(PyStrOrder) + 1)
         + StrRank(path[Len(path)])

\* An enumeration that takes the keys in the order they were declared in;
\* C28 tells it from SortedItems.
SortedItemsAsDeclared(grid) == grid

\* sorted(param_grid.items()).
SortedItems(grid) ==
    LET p == SortPairs([i \in 1 .. Len(grid) |-> <<KeyRank(grid[i].key), grid[i]>>])
    IN [i \in 1 .. Len(grid) |-> p[i][2]]

RECURSIVE GridSize(_)
GridSize(items) ==
    IF items = <<>> THEN 1 ELSE Len(Head(items).values) * GridSize(Tail(items))

\* An enumeration that advances key j at the pace of key j - 1, so that it
\* repeats some combinations and misses others; C3 tells it from Combination.
CombinationSkewed(items, c) ==
    [j \in 1 .. Len(items) |->
        [key |-> items[j].key,
         value |-> items[j].values[
             ((c \div GridSize(SubSeq(items, j, Len(items))))
                 % Len(items[j].values)) + 1]]]

\* The c-th combination (c = 0, 1, ...) of itertools.product over the sorted
\* items: the last key varies fastest.
Combination(items, c) ==
    [j \in 1 .. Len(items) |->
        [key |-> items[j].key,
         value |-> items[j].values[
             ((c \div GridSize(SubSeq(items, j + 1, Len(items))))
                 % Len(items[j].values)) + 1]]]

\* list(ParameterGrid(param_grid)).
ParameterGrid(grid) ==
    LET items == SortedItems(grid)
    IN [c \in 1 .. GridSize(items) |-> Combination(items, c - 1)]

----------------------------------------------------------------------------
(* KFold and _fit_and_score *)

\* The number of rows of fold f (f = 1 .. k) of n rows: the first n % k folds
\* have one row more.
FoldSize(n, k, f) == (n \div k) + (IF f <= n % k THEN 1 ELSE 0)

\* Folds of n \div k rows each, one after the other, which leave the last
\* n % k rows in no fold; C22 tells it from TestPositions.
TestPositionsEqualBlocks(n, k, f) ==
    [i \in 1 .. (n \div k) |-> (f - 1) * (n \div k) + i]

\* The row positions of the held-out fold f: folds are consecutive blocks.
TestPositions(n, k, f) ==
    LET start == SeqSum([g \in 1 .. f - 1 |-> FoldSize(n, k, g)])
    IN [i \in 1 .. FoldSize(n, k, f) |-> start + i]

\* The row positions the estimator of fold f is fit on: all the others.
TrainPositions(n, k, f) ==
    LET out(i) == i \notin Range(TestPositions(n, k, f))
    IN SelectSeq([i \in 1 .. n |-> i], out)

\* np.nan as a score (genuine scores are >= 0).
ScoreNaN == -1

\* What one (combination, fold) evaluation returns: fit_failed when the fit
\* raised and the score is error_score=np.nan; err is the exception that
\* escapes the evaluation, or ""; rows are the identifiers of the rows fit on.
Evaluation(err, fit_failed, score, rows) ==
    [err |-> err, fit_failed |-> fit_failed, score |-> score, rows |-> rows]

\* A cross-validation that fits the estimator of every fold on the whole
\* table; C6 tells it from FitRows.
FitRowsAll(T, k, f) == T

\* The table the estimator of fold f is fit on.
FitRows(T, k, f) == TakeRows(T, TrainPositions(Len(T.ids), k, f))

\* An evaluation with error_score='raise': the exception of a fit that fails
\* escapes the evaluation; C17 tells it from FitAndScore.
FitAndScoreRaises(est, params, T, target, k, f) ==
    LET conf == SetParams(est, params, 1)
        train == FitRows(T, k, f)
        test == TakeRows(T, TestPositions(Len(T.ids), k, f))
        fit == Fit(conf.est, train, TargetOf(target, train), <<>>)
        sc == PipelineScore(conf.est, fit.learned, test, TargetOf(target, test))
    IN IF conf.err # "" THEN Evaluation(conf.err, FALSE, ScoreNaN, {})
       ELSE IF fit.err # "" THEN Evaluation(fit.err, TRUE, ScoreNaN, Range(train.ids))
       ELSE Evaluation(sc.err, FALSE, sc.score, Range(train.ids))

\* An evaluation that sets the parameters inside the guarded fit, so that a
\* parameter that does not exist counts as a failed fit and is scored NaN;
\* C14 tells it from FitAndScore.
FitAndScoreGuardsSetParams(est, params, T, target, k, f) ==
    LET conf == SetParams(est, params, 1)
        train == FitRows(T, k, f)
        test == TakeRows(T, TestPositions(Len(T.ids), k, f))
        fit == Fit(conf.est, train, TargetOf(target, train), <<>>)
        sc == PipelineScore(conf.est, fit.learned, test, TargetOf(target, test))
    IN IF conf.err # "" THEN Evaluation("", TRUE, ScoreNaN, {})
       ELSE IF fit.err # "" THEN Evaluation("", TRUE, ScoreNaN, Range(train.ids))
       ELSE Evaluation(sc.err, FALSE, sc.score, Range(train.ids))

\* _fit_and_score: a clone of est gets the parameters, is fit on the training
\* rows of fold f and scored on its held-out rows.
FitAndScore(est, params, T, target, k, f) ==
    LET conf == SetParams(est, params, 1)
        train == FitRows(T, k, f)
        test == TakeRows(T, TestPositions(Len(T.ids), k, f))
        fit == Fit(conf.est, train, TargetOf(target, train), <<>>)
        sc == PipelineScore(conf.est, fit.learned, test, TargetOf(target, test))
    IN IF conf.err # "" THEN Evaluation(conf.err, FALSE, ScoreNaN, {})
       ELSE IF fit.err # "" THEN Evaluation("", TRUE, ScoreNaN, Range(train.ids))
       ELSE Evaluation(sc.err, FALSE, sc.score, Range(train.ids))

----------------------------------------------------------------------------
(* cv_results_ *)

\* mean_test_score of one combination as the rational <<sum, k>> = sum/k.
MeanScore(scores) == <<SeqSum(scores), Len(scores)>>

\* a > b for rationals with positive denominators.
RatGreater(a, b) == a[1] * b[2] > b[1] * a[2]

\* rank_test_score: scipy's rankdata(-mean_test_score, method='min'), one more
\* than the number of combinations of strictly greater mean; a NaN mean sorts
\* after every number and equals no other NaN, so that the NaN rows take the
\* last ranks, one each, in their order.
RankOf(means, c) ==
    IF means[c][1] # ScoreNaN
        THEN 1 + Cardinality({d \in 1 .. Len(means) : RatGreater(means[d], means[c])})
    ELSE 1 + Cardinality({d \in 1 .. Len(means) : means[d][1] # ScoreNaN \/ d < c})

RankTestScore(means) == [c \in 1 .. Len(means) |-> RankOf(means, c)]

\* An argmin that returns the last position that holds the least rank; C4
\* tells it from ArgMin.
ArgMinLast(ranks) ==
    CHOOSE c \in 1 .. Len(ranks) :
        /\ \A d \in 1 .. Len(ranks) : ranks[c] <= ranks[d]
        /\ \A d \in c + 1 .. Len(ranks) : ranks[d] > ranks[c]

\* ranks.argmin(): the first position that holds the least rank.
ArgMin(ranks) ==
    CHOOSE c \in 1 .. Len(ranks) :
        /\ \A d \in 1 .. Len(ranks) : ranks[c] <= ranks[d]
        /\ \A d \in 1 .. c - 1 : ranks[d] > ranks[c]

----------------------------------------------------------------------------
(* The notebooks as programs: one statement per call that a cell makes *)

Split == [op |-> "split"]

\* out = X_in[cols]
Select(out, in, cols) == [op |-> "select", out |-> out, in |-> in, cols |-> cols]

\* out = X_in[cols[X_of[cols].isna().mean() > 0]]
SelectWithNa(out, in, of, cols) ==
    [op |-> "select_with_na", out |-> out, in |-> in, of |-> of, cols |-> cols]

\* name = est
Define(name, est) == [op |-> "define", obj |-> name, est |-> est]

\* obj.fit(in, y) or, with out # "", out = obj.fit_transform(in)
FitStmt(obj, in, out) == [op |-> "fit", obj |-> obj, in |-> in, out |-> out]

\* out = obj.transform(in)
TransformStmt(obj, in, out) == [op |-> "transform", obj |-> obj, in |-> in, out |-> out]

\* obj.score(in, y)
ScoreStmt(obj, in) == [op |-> "score", obj |-> obj, in |-> in]

\* cross_val_score(obj, in, y, cv=cv)
CrossValStmt(obj, in, cv) == [op |-> "cross_val_score", obj |-> obj, in |-> in, cv |-> cv]

\* grid_search = GridSearchCV(obj, param)
SearchStmt(obj) == [op |-> "GridSearchCV", obj |-> obj]

\* grid_search.fit(in, y)
SearchFitStmt(in) == [op |-> "grid_search.fit", in |-> in]

\* cross_val_score(pipe, X, y, cv=5); also GridSearchCV's default cv.
DefaultCV == 5

\* Lasso(max_iter=10000).
LassoMaxIter == 10000

\* Lasso()'s default max_iter.
LassoDefaultMaxIter == 1000

\* summary_3_grid_search, cell 3.
num_pipe ==
    Pipeline(<< Step("imputer", SimpleImputer("mean", FALSE, None)),
                Step("scaler", StandardScaler) >>)

cat_pipe ==
    Pipeline(<< Step("imputer", SimpleImputer("most_frequent", FALSE, "Missing")),
                Step("encoder", OneHotEncoder) >>)

preprocess ==
    ColumnTransformer(<< Entry("num_pipe", num_pipe, num_cols),
                         Entry("cat_pipe", cat_pipe, cat_cols) >>)

pipe == Pipeline(<< Step("preprocess", preprocess), Step("lasso", Lasso(LassoMaxIter)) >>)

\* The parameter grids of summary_3_grid_search, keys in declared order:
\* the 4 and the 8 combinations of section 2.3, and param of cell 6.
NumStrategyKey == <<"preprocess", "num_pipe", "imputer", "strategy">>

NumIndicatorKey == <<"preprocess", "num_pipe", "imputer", "add_indicator">>

CatStrategyKey == <<"preprocess", "cat_pipe", "imputer", "strategy">>

Grid2x2 ==
    << GridItem(NumStrategyKey, <<"mean", "median">>),
       GridItem(NumIndicatorKey, <<TRUE, FALSE>>) >>

Grid2x2x2 ==
    Grid2x2 \o << GridItem(CatStrategyKey, <<"most_frequent", "constant">>) >>

param ==
    << GridItem(NumStrategyKey, <<"mean", "median", "most_frequent">>),
       GridItem(NumIndicatorKey, <<TRUE, FALSE>>),
       GridItem(CatStrategyKey, <<"most_frequent", "constant">>) >>

ParamGrids == {Grid2x2, Grid2x2x2, param}

FoldCounts == 2 .. MaxFolds

GridSearchNotebook ==
    << Split,
       Define("pipe", pipe),
       FitStmt("pipe", "X_train", ""),
       ScoreStmt("pipe", "X_test"),
       CrossValStmt("pipe", "X", DefaultCV),
       SearchStmt("pipe"),
       SearchFitStmt("X") >>

\* summary_2: the cells 4 to 10.
Summary2Notebook ==
    << Split,
       Select("X_temp", "X_train", num_cols),
       Define("imputer", SimpleImputer("mean", FALSE, None)),
       FitStmt("imputer", "X_temp", "X_impute"),
       Define("scaler", StandardScaler),
       FitStmt("scaler", "X_impute", "X_scale"),
       Define("lasso", Lasso(LassoDefaultMaxIter)),
       FitStmt("lasso", "X_scale", ""),
       ScoreStmt("lasso", "X_scale"),
       Define("pipe", Pipeline(<< Step("imputer", SimpleImputer("mean", FALSE, None)),
                                  Step("scaler", StandardScaler),
                                  Step("lasso", Lasso(LassoDefaultMaxIter)) >>)),
       FitStmt("pipe", "X_temp", ""),
       ScoreStmt("pipe", "X_temp"),
       Define("pipe", Pipeline(<< Step("num_imputer", SimpleImputer("mean", FALSE, None)),
                                  Step("cat_imputer",
                                       SimpleImputer("most_frequent", FALSE, None)),
                                  Step("lasso", Lasso(LassoDefaultMaxIter)) >>)),
       FitStmt("pipe", "X_train", ""),
       Define("transformer",
              ColumnTransformer(
                  << Entry("numerical", SimpleImputer("mean", FALSE, None), num_cols),
                     Entry("categorical", SimpleImputer("most_frequent", FALSE, None),
                           cat_cols) >>)),
       FitStmt("transformer", "X_train", ""),
       TransformStmt("transformer", "X_train", "X_train_transformed"),
       Define("transformer",
              ColumnTransformer(
                  << Entry("numerical_imputer", SimpleImputer("mean", FALSE, None),
                           num_cols),
                     Entry("numerical_scaler", StandardScaler, num_cols),
                     Entry("categorical_imputer",
                           SimpleImputer("most_frequent", FALSE, None), cat_cols),
                     Entry("categorical_encoder", OneHotEncoder, cat_cols) >>)),
       FitStmt("transformer", "X_train", ""),
       Define("pipe",
              Pipeline(<< Step("preprocessing",
                               ColumnTransformer(
                                   << Entry("num_pipeline", num_pipe, num_cols),
                                      Entry("cat_pipeline",
                                            Pipeline(<< Step("imputer",
                                                SimpleImputer("most_frequent", FALSE, None)),
                                                Step("encoder", OneHotEncoder) >>),
                                            cat_cols) >>)),
                          Step("lasso", Lasso(LassoMaxIter)) >>)),
       FitStmt("pipe", "X_train", ""),
       ScoreStmt("pipe", "X_train") >>

\* summary.md, steps 1 to 4, and the imputer it fits applied to new data.
SummaryMd ==
    << Split,
       SelectWithNa("X_temp", "X_train", "X_train", NumericCols),
       Define("imputer", SimpleImputer("mean", TRUE, None)),
       FitStmt("imputer", "X_temp", ""),
       TransformStmt("imputer", "X_temp", "X_train_mean_impute"),
       SelectWithNa("X_test_temp", "X_test", "X_train", NumericCols),
       TransformStmt("imputer", "X_test_temp", "X_test_mean_impute") >>

Notebooks == {"summary_2", "grid_search"}

\* The cells of the notebooks run on other arguments: the cases their text
\* describes without running them, and the arguments their calls accept.

\* A column name that no column of train.csv has.
AbsentColumn == <<"NoSuchColumn">>

\* ColumnTransformer of summary_2 cell 6 when the table has no column of one
\* dtype, so that select_dtypes(...).columns is empty for that group.
EmptyGroupCase ==
    << Split,
       Define("transformer",
              ColumnTransformer(
                  << Entry("numerical", SimpleImputer("mean", FALSE, None), num_cols),
                     Entry("categorical", SimpleImputer("most_frequent", FALSE, None),
                           <<>>) >>)),
       FitStmt("transformer", "X_train", ""),
       TransformStmt("transformer", "X_train", "X_train_transformed"),
       Define("transformer",
              ColumnTransformer(
                  << Entry("numerical", SimpleImputer("mean", FALSE, None), <<>>),
                     Entry("categorical", SimpleImputer("most_frequent", FALSE, None),
                           cat_cols) >>)),
       FitStmt("transformer", "X_train", ""),
       TransformStmt("transformer", "X_test", "X_train_transformed"),
       Define("pipe",
              Pipeline(<< Step("preprocess",
                               ColumnTransformer(
                                   << Entry("num_pipe", num_pipe, num_cols),
                                      Entry("cat_pipe", cat_pipe, <<>>) >>)),
                          Step("lasso", Lasso(LassoMaxIter)) >>)),
       FitStmt("pipe", "X_train", ""),
       ScoreStmt("pipe", "X_test") >>

\* The same cells with a group that names a column the table does not have.
AbsentColumnCase ==
    << Split,
       Define("transformer",
              ColumnTransformer(
                  << Entry("numerical", SimpleImputer("mean", FALSE, None), num_cols),
                     Entry("categorical", SimpleImputer("most_frequent", FALSE, None),
                           Append(cat_cols, AbsentColumn)) >>)),
       FitStmt("transformer", "X_train", ""),
       TransformStmt("transformer", "X_train", "X_train_transformed"),
       Define("pipe",
              Pipeline(<< Step("preprocess",
                               ColumnTransformer(
                                   << Entry("num_pipe", num_pipe,
                                            <<AbsentColumn>> \o num_cols),
                                      Entry("cat_pipe", cat_pipe, cat_cols) >>)),
                          Step("lasso", Lasso(LassoMaxIter)) >>)),
       FitStmt("pipe", "X_train", ""),
       ScoreStmt("pipe", "X_test") >>

\* summary_2 cell 4 with the estimator before the last step.
EstimatorNotLastCase ==
    << Split,
       Select("X_temp", "X_train", num_cols),
       Define("pipe", Pipeline(<< Step("imputer", SimpleImputer("mean", FALSE, None)),
                                  Step("lasso", Lasso(LassoDefaultMaxIter)),
                                  Step("scaler", StandardScaler) >>)),
       FitStmt("pipe", "X_temp", ""),
       ScoreStmt("pipe", "X_temp"),
       Define("pipe", Pipeline(<< Step("lasso", Lasso(LassoDefaultMaxIter)),
                                  Step("imputer", SimpleImputer("mean", FALSE, None)),
                                  Step("lasso2", Lasso(LassoDefaultMaxIter)) >>)),
       FitStmt("pipe", "X_temp", "") >>

\* The key of section 3.1, 'lasso__alph', and a key through a step that has
\* no such parameter.
AlphKey == <<"lasso", "alph">>

ScalerStrategyKey == <<"preprocess", "num_pipe", "scaler", "strategy">>

InvalidKeyGrids ==
    { << GridItem(AlphKey, <<1, 5, 10>>) >>,
      << GridItem(NumStrategyKey, <<"mean", "median">>), GridItem(AlphKey, <<1, 5>>) >>,
      << GridItem(NumStrategyKey, <<"mean", "median">>),
         GridItem(ScalerStrategyKey, <<"mean">>) >> }

InvalidKeyCase ==
    << Split,
       Define("pipe", pipe),
       SearchStmt("pipe"),
       SearchFitStmt("X") >>

\* Grids and a base pipeline with a strategy that SimpleImputer does not
\* know.
InvalidStrategyGrids ==
    { << GridItem(NumStrategyKey, <<"mean", "average", "median">>) >>,
      << GridItem(NumStrategyKey, <<"mean", "median">>),
         GridItem(CatStrategyKey, <<"mode", "most_frequent">>) >>,
      << GridItem(NumStrategyKey, <<"average">>) >> }

InvalidStrategyCase ==
    << Split,
       Define("pipe",
              Pipeline(<< Step("preprocess",
                               ColumnTransformer(
                                   << Entry("num_pipe", num_pipe, num_cols),
                                      Entry("cat_pipe",
                                            Pipeline(<< Step("imputer",
                                                SimpleImputer("mode", FALSE, "Missing")),
                                                Step("encoder", OneHotEncoder) >>),
                                            cat_cols) >>)),
                          Step("lasso", Lasso(LassoMaxIter)) >>)),
       FitStmt("pipe", "X_train", ""),
       ScoreStmt("pipe", "X_test"),
       CrossValStmt("pipe", "X", DefaultCV),
       Define("pipe", pipe),
       SearchStmt("pipe"),
       SearchFitStmt("X") >>

\* The Pipelines of transformers only that the notebooks define, each fit on
\* its own columns: num_pipeline and cat_pipeline of summary_2 cell 8, and
\* num_pipe with add_indicator=True (a value of param).
TransformerPipelinesCase ==
    << Split,
       Select("X_temp", "X_train", num_cols),
       Define("pipe", num_pipe),
       FitStmt("pipe", "X_temp", "X_scale"),
       Define("pipe",
              Pipeline(<< Step("imputer", SimpleImputer("mean", TRUE, None)),
                          Step("scaler", StandardScaler) >>)),
       FitStmt("pipe", "X_temp", "X_scale"),
       Select("X_temp", "X_train", cat_cols),
       Define("pipe",
              Pipeline(<< Step("imputer", SimpleImputer("most_frequent", FALSE, None)),
                          Step("encoder", OneHotEncoder) >>)),
       FitStmt("pipe", "X_temp", "X_impute"),
       Select("X_temp", "X_test", cat_cols),
       TransformStmt("pipe", "X_temp", "X_train_transformed") >>

\* The grids of the case failed_fold: the strategy of the categorical imputer
\* alone, and most_frequent with both strategies of the numerical one.
FailedFoldGrids ==
    { << GridItem(CatStrategyKey, <<"most_frequent", "constant">>) >>,
      << GridItem(CatStrategyKey, <<"most_frequent">>),
         GridItem(NumStrategyKey, <<"mean", "median">>) >> }

\* The pipe of the grid_search notebook with Alley as the only categorical
\* column: on rows where every Alley is missing the most_frequent imputer
\* drops the column and the encoder is handed a table of no column.
FailedFoldCase ==
    << Split,
       Define("pipe",
              Pipeline(<< Step("preprocess",
                               ColumnTransformer(
                                   << Entry("num_pipe", num_pipe, num_cols),
                                      Entry("cat_pipe", cat_pipe, << <<"Alley">> >>) >>)),
                          Step("lasso", Lasso(LassoMaxIter)) >>)),
       FitStmt("pipe", "X_train", ""),
       ScoreStmt("pipe", "X_test"),
       CrossValStmt("pipe", "X", DefaultCV),
       SearchStmt("pipe"),
       SearchFitStmt("X") >>

Cases ==
    {"empty_group", "absent_column", "estimator_not_last", "invalid_key",
     "invalid_strategy", "failed_fold", "transformer_pipelines"}

\* GridSearchCV(pipe, param, n_jobs=n) of the grid_search notebook: the
\* evaluations of the search are run by n workers.
WorkerPoolCase ==
    << Define("pipe", pipe),
       SearchStmt("pipe"),
       SearchFitStmt("X") >>

\* The grids of the case worker_pool: the 2x2 grid, and three strategies one
\* of which SimpleImputer does not know.
WorkerPoolGrids ==
    { Grid2x2, << GridItem(NumStrategyKey, <<"mean", "average", "median">>) >> }

\* The numbers of workers of the case worker_pool.
PoolSizes == {2}

Program(notebook) ==
    CASE notebook = "summary_2" -> Summary2Notebook
      [] notebook = "grid_search" -> GridSearchNotebook
      [] notebook = "empty_group" -> EmptyGroupCase
      [] notebook = "absent_column" -> AbsentColumnCase
      [] notebook = "estimator_not_last" -> EstimatorNotLastCase
      [] notebook = "invalid_key" -> InvalidKeyCase
      [] notebook = "invalid_strategy" -> InvalidStrategyCase
      [] notebook = "failed_fold" -> FailedFoldCase
      [] notebook = "worker_pool" -> WorkerPoolCase
      [] notebook = "summary_md" -> SummaryMd
      [] OTHER -> TransformerPipelinesCase

\* The grids GridSearchCV is called with in a notebook or a case.
GridsOf(notebook) ==
    CASE notebook = "invalid_key" -> InvalidKeyGrids
      [] notebook = "invalid_strategy" -> InvalidStrategyGrids
      [] notebook = "failed_fold" -> FailedFoldGrids
      [] notebook = "worker_pool" -> WorkerPoolGrids
      [] OTHER -> ParamGrids

\* The n_jobs argument of GridSearchCV in a notebook or a case; the notebooks
\* leave it at None, which is one worker.
JobsOf(notebook) == IF notebook = "worker_pool" THEN PoolSizes ELSE {1}

----------------------------------------------------------------------------
(* State *)

VARIABLES
    nb,         \* the notebook that is run
    pc,         \* the position in its program of the next statement
    X,          \* the table read from train.csv, without the target column
    testIds,    \* the row identifiers train_test_split held out ({} before)
    frames,     \* the tables the cells have bound, by variable name
    objs,       \* the estimator objects, by variable name: parameters and
                \* learned state
    raised,     \* the exception of the last call, "" when it returned
    fitLog,     \* the fit calls on steps made by the last fit statement
    fitOn,      \* every [flow, rows]: some step was fit, in that flow, on
                \* exactly these rows
    lastScore,  \* what the last score call returned
    cvScores,   \* what cross_val_score returned
    gs          \* the GridSearchCV object grid_search

vars == <<nb, pc, X, testIds, frames, objs, raised, fitLog, fitOn, lastScore,
          cvScores, gs>>

FrameNames ==
    {"X", "X_train", "X_test", "X_temp", "X_impute", "X_scale", "X_train_transformed",
     "X_train_mean_impute", "X_test_temp", "X_test_mean_impute"}

ObjNames == {"imputer", "scaler", "lasso", "pipe", "transformer"}

\* A variable no cell has bound yet.
Unbound == [est |-> [kind |-> "None"], learned |-> <<>>, fitted |-> FALSE]

\* An estimator as constructed: parameters only.
Constructed(est) == [est |-> est, learned |-> <<>>, fitted |-> FALSE]

\* grid_search before GridSearchCV(...) is called.
NoSearch ==
    [phase |-> "none", est |-> [kind |-> "None"], grid |-> <<>>, cv |-> 0,
     n_jobs |-> 1, dispatched |-> 0, inflight |-> {}, out |-> <<>>,
     candidates |-> <<>>, done |-> 0, scores |-> <<>>, failed |-> {},
     fitCount |-> 0, means |-> <<>>, ranks |-> <<>>, best_index |-> 0,
     best_score |-> <<0, 1>>, best_params |-> <<>>, best_learned |-> <<>>]

Init ==
    /\ nb \in Notebooks
    /\ pc = 1
    /\ X \in {DataFrame(numNa, catNa) :
                 numNa \in NumMissingChoices, catNa \in CatMissingChoices}
    /\ testIds = {}
    /\ frames = [f \in FrameNames |-> IF f = "X" THEN X ELSE NoTable]
    /\ objs = [o \in ObjNames |-> Unbound]
    /\ raised = ""
    /\ fitLog = <<>>
    /\ fitOn = {}
    /\ lastScore = ScoreNaN
    /\ cvScores = <<>>
    /\ gs = NoSearch

Running == pc <= Len(Program(nb))

Stmt == Program(nb)[pc]

\* The rows on which the steps of a fit call were fit, tagged with the flow.
FitsOf(flow, log) ==
    {[flow |-> flow, rows |-> Range(log[i].input.ids)] : i \in 1 .. Len(log)}

----------------------------------------------------------------------------
(* Actions: one per kind of statement *)

\* X_train, X_test, y_train, y_test = train_test_split(X, y, test_size=0.3,
\* random_state=0)
TrainTestSplit ==
    /\ Running /\ Stmt.op = "split"
    /\ \E held \in TestChoices :
          /\ testIds' = held
          /\ frames' = [frames EXCEPT
                 !["X_train"] = TakeRows(X, PositionsOf(X, TrainRows(held))),
                 !["X_test"] = TakeRows(X, PositionsOf(X, held))]
    /\ pc' = pc + 1
    /\ raised' = ""
    /\ UNCHANGED <<nb, X, objs, fitLog, fitOn, lastScore, cvScores, gs>>

\* X_temp = X_train[num_cols].copy()
SelectColumns ==
    /\ Running /\ Stmt.op = "select"
    /\ frames' = [frames EXCEPT ![Stmt.out] = SelectCols(frames[Stmt.in], Stmt.cols)]
    /\ pc' = pc + 1
    /\ raised' = ""
    /\ UNCHANGED <<nb, X, testIds, objs, fitLog, fitOn, lastScore, cvScores, gs>>

\* X_train[num_cols_with_na]
SelectColumnsWithNa ==
    /\ Running /\ Stmt.op = "select_with_na"
    /\ frames' = [frames EXCEPT ![Stmt.out] =
                     SelectCols(frames[Stmt.in], ColsWithNa(frames[Stmt.of], Stmt.cols))]
    /\ pc' = pc + 1
    /\ raised' = ""
    /\ UNCHANGED <<nb, X, testIds, objs, fitLog, fitOn, lastScore, cvScores, gs>>

\* name = SimpleImputer(...) / Pipeline([...]) / ColumnTransformer([...])
DefineObject ==
    /\ Running /\ Stmt.op = "define"
    /\ objs' = [objs EXCEPT ![Stmt.obj] = Constructed(Stmt.est)]
    /\ pc' = pc + 1
    /\ raised' = ""
    /\ UNCHANGED <<nb, X, testIds, frames, fitLog, fitOn, lastScore, cvScores, gs>>

\* The object after obj.fit returned r.
AfterFit(obj, r) ==
    IF r.err = "" THEN [est |-> obj.est, learned |-> r.learned, fitted |-> TRUE]
    ELSE [est |-> obj.est, learned |-> <<>>, fitted |-> FALSE]

\* obj.fit(in, y) / out = obj.fit_transform(in)
FitCall ==
    /\ Running /\ Stmt.op = "fit"
    /\ LET T == frames[Stmt.in]
           r == Fit(objs[Stmt.obj].est, T, TargetOf(SalePrice, T), <<Stmt.obj>>)
       IN /\ objs' = [objs EXCEPT ![Stmt.obj] = AfterFit(objs[Stmt.obj], r)]
          /\ raised' = r.err
          /\ fitLog' = r.log
          /\ fitOn' = fitOn \cup FitsOf("fit", r.log)
          /\ frames' = IF Stmt.out # "" /\ r.err = ""
                          THEN [frames EXCEPT ![Stmt.out] = r.out]
                          ELSE frames
    /\ pc' = pc + 1
    /\ UNCHANGED <<nb, X, testIds, lastScore, cvScores, gs>>

\* A transform or score that fits the object again on the table it is
\* handed; C8 tells it from AfterApply.
AfterApplyRefit(obj, T) ==
    [obj EXCEPT !.learned = Fit(obj.est, T, TargetOf(SalePrice, T), <<>>).learned]

\* The object after obj.transform or obj.score returned.
AfterApply(obj, T) == obj

\* out = obj.transform(in)
TransformCall ==
    /\ Running /\ Stmt.op = "transform"
    /\ LET T == frames[Stmt.in]
           r == Transform(objs[Stmt.obj].est, objs[Stmt.obj].learned, T)
       IN /\ raised' = IF objs[Stmt.obj].fitted THEN r.err ELSE "NotFittedError"
          /\ frames' = IF objs[Stmt.obj].fitted /\ r.err = ""
                          THEN [frames EXCEPT ![Stmt.out] = r.out]
                          ELSE frames
          /\ objs' = [objs EXCEPT ![Stmt.obj] = AfterApply(objs[Stmt.obj], T)]
    /\ pc' = pc + 1
    /\ UNCHANGED <<nb, X, testIds, fitLog, fitOn, lastScore, cvScores, gs>>

\* est.score(T, y) of a fitted Lasso or of a fitted Pipeline that ends in one.
ScoreOf(est, learned, T, target) ==
    IF est.kind = "Lasso" THEN LassoScore(learned, T, target)
    ELSE PipelineScore(est, learned, T, target)

\* obj.score(in, y)
ScoreCall ==
    /\ Running /\ Stmt.op = "score"
    /\ LET T == frames[Stmt.in]
           r == ScoreOf(objs[Stmt.obj].est, objs[Stmt.obj].learned, T,
                        TargetOf(SalePrice, T))
       IN /\ raised' = IF objs[Stmt.obj].fitted THEN r.err ELSE "NotFittedError"
          /\ lastScore' = IF objs[Stmt.obj].fitted /\ r.err = "" THEN r.score
                          ELSE ScoreNaN
          /\ objs' = [objs EXCEPT ![Stmt.obj] = AfterApply(objs[Stmt.obj], T)]
    /\ pc' = pc + 1
    /\ UNCHANGED <<nb, X, testIds, frames, fitLog, fitOn, cvScores, gs>>


\* The scores of the folds 1 .. k of one cross-validation of est on T.
FoldEvaluations(est, params, T, k) ==
    [f \in 1 .. k |-> FitAndScore(est, params, T, SalePrice, k, f)]

TooManyFolds == "ValueError: Cannot have number of splits greater than the number of samples"

\* The exception that escapes a sequence of evaluations: the first one.
FirstError(evals) ==
    IF \A f \in 1 .. Len(evals) : evals[f].err = "" THEN ""
    ELSE evals[CHOOSE f \in 1 .. Len(evals) :
                  evals[f].err # "" /\ \A g \in 1 .. f - 1 : evals[g].err = ""].err

\* cross_val_score(obj, in, y, cv=cv)
CrossValScore ==
    /\ Running /\ Stmt.op = "cross_val_score"
    /\ LET T == frames[Stmt.in]
           evals == FoldEvaluations(objs[Stmt.obj].est, <<>>, T, Stmt.cv)
       IN IF Stmt.cv > Len(T.ids)
             THEN /\ raised' = TooManyFolds
                  /\ UNCHANGED <<cvScores, fitOn>>
          ELSE IF FirstError(evals) # ""
             THEN /\ raised' = FirstError(evals)
                  /\ UNCHANGED <<cvScores, fitOn>>
          ELSE /\ raised' = ""
               /\ cvScores' = [f \in 1 .. Stmt.cv |-> evals[f].score]
               /\ fitOn' = fitOn \cup
                     {[flow |-> "cross_val_score", rows |-> evals[f].rows] :
                         f \in 1 .. Stmt.cv}
    /\ pc' = pc + 1
    /\ UNCHANGED <<nb, X, testIds, frames, objs, fitLog, lastScore, gs>>

\* grid_search = GridSearchCV(obj, param), with the grid and the fold count
\* (cv, 5 by default) of the call.
GridSearchCV ==
    /\ Running /\ Stmt.op = "GridSearchCV"
    /\ \E grid \in GridsOf(nb), k \in FoldCounts, n \in JobsOf(nb) :
          gs' = [NoSearch EXCEPT !.phase = "built", !.est = objs[Stmt.obj].est,
                                 !.grid = grid, !.cv = k, !.n_jobs = n]
    /\ pc' = pc + 1
    /\ raised' = ""
    /\ UNCHANGED <<nb, X, testIds, frames, objs, fitLog, fitOn, lastScore, cvScores>>

\* grid_search.fit(X, y), first step: the folds are checked and the
\* combinations enumerated.
SearchStart ==
    /\ Running /\ Stmt.op = "grid_search.fit" /\ gs.phase = "built"
    /\ IF gs.cv > Len(frames[Stmt.in].ids)
          THEN /\ gs' = [gs EXCEPT !.phase = "failed"]
               /\ raised' = TooManyFolds
               /\ pc' = pc + 1
          ELSE /\ gs' = [gs EXCEPT
                      !.phase = "running",
                      !.candidates = ParameterGrid(gs.grid),
                      !.scores = [c \in 1 .. Len(ParameterGrid(gs.grid)) |-> <<>>]]
               /\ raised' = ""
               /\ pc' = pc
    /\ UNCHANGED <<nb, X, testIds, frames, objs, fitLog, fitOn, lastScore, cvScores>>

\* A search that leaves out the last fold of the last combination; C1 tells
\* it from NTasks.
NTasksShort(search) == Len(search.candidates) * search.cv - 1

\* The number of (combination, fold) evaluations of the search.
NTasks(search) == Len(search.candidates) * search.cv

\* A search that goes through the folds of a combination from the last to
\* the first; C29 tells it from TaskFold.
TaskFoldBackwards(search) == search.cv - (search.done % search.cv)

\* The combination and the fold of the evaluation that follows `done`
\* finished ones: combinations in order, and for each its folds in order.
TaskCandidate(search) == (search.done \div search.cv) + 1

TaskFold(search) == (search.done % search.cv) + 1

\* A search that gives the parameters of a combination to the pipeline it
\* was built on, instead of to a clone of it; C25 tells it from BaseEstimator.
BaseEstimatorSetInPlace(est, params) == SetParams(est, params, 1).est

\* The pipeline the search was built on, after an evaluation with params:
\* the evaluation is handed clone(base_estimator), and set_params and fit work
\* on the clone.
BaseEstimator(est, params) == est

\* grid_search.fit, one evaluation: _fit_and_score of the next combination
\* and fold.
SearchEvaluate ==
    /\ Running /\ Stmt.op = "grid_search.fit" /\ gs.phase = "running"
    /\ gs.done < NTasks(gs)
    /\ LET c == TaskCandidate(gs)
           f == TaskFold(gs)
           e == FitAndScore(gs.est, gs.candidates[c], frames[Stmt.in], SalePrice,
                            gs.cv, f)
       IN IF e.err # ""
             THEN /\ gs' = [gs EXCEPT !.phase = "failed"]
                  /\ raised' = e.err
                  /\ pc' = pc + 1
                  /\ UNCHANGED fitOn
          ELSE /\ gs' = [gs EXCEPT
                      !.est = BaseEstimator(@, gs.candidates[c]),
                      !.done = @ + 1,
                      !.scores[c] = Append(@, e.score),
                      !.failed = IF e.fit_failed THEN @ \cup {<<c, f>>} ELSE @,
                      !.fitCount = @ + 1]
               /\ fitOn' = fitOn \cup {[flow |-> "search", rows |-> e.rows]}
               /\ UNCHANGED <<raised, pc>>
    /\ UNCHANGED <<nb, X, testIds, frames, objs, fitLog, lastScore, cvScores>>

\* A mean_test_score that leaves the failed folds out and averages the
\* scores of the folds that were fit; C18 tells it from MeanTestScore.
MeanTestScoreOfSucceeded(scores) ==
    [c \in 1 .. Len(scores) |->
        LET scored(v) == v # ScoreNaN
        IN IF SelectSeq(scores[c], scored) = <<>> THEN <<ScoreNaN, 1>>
           ELSE MeanScore(SelectSeq(scores[c], scored))]

\* mean_test_score of every combination; NaN (below every genuine mean) for
\* a combination with a failed fold.
MeanTestScore(scores) ==
    [c \in 1 .. Len(scores) |->
        IF ScoreNaN \in Range(scores[c]) THEN <<ScoreNaN, 1>> ELSE MeanScore(scores[c])]

\* A search that reports the last row as the best one; C2 tells it from
\* BestIndex.
BestIndexLast(ranks) == Len(ranks)

\* best_index_
BestIndex(ranks) == ArgMin(ranks)

\* grid_search.fit, after the last evaluation: cv_results_, best_index_,
\* best_params_, best_score_.
SearchRank ==
    /\ Running /\ Stmt.op = "grid_search.fit" /\ gs.phase = "running"
    /\ gs.done = NTasks(gs)
    /\ LET means == MeanTestScore(gs.scores)
           ranks == RankTestScore(means)
           best == BestIndex(ranks)
       IN gs' = [gs EXCEPT !.phase = "ranked", !.means = means, !.ranks = ranks,
                           !.best_index = best, !.best_score = means[best],
                           !.best_params = gs.candidates[best]]
    /\ UNCHANGED <<nb, pc, X, testIds, frames, objs, raised, fitLog, fitOn, lastScore,
                   cvScores>>

\* grid_search.fit, last step (refit=True): best_estimator_ is a clone with
\* best_params_, fit on the whole of the data.
SearchRefit ==
    /\ Running /\ Stmt.op = "grid_search.fit" /\ gs.phase = "ranked"
    /\ LET T == frames[Stmt.in]
           conf == SetParams(gs.est, gs.best_params, 1)
           r == Fit(conf.est, T, TargetOf(SalePrice, T), <<>>)
       IN /\ gs' = [gs EXCEPT !.phase = IF r.err = "" THEN "done" ELSE "failed",
                              !.best_learned = r.learned,
                              !.fitCount = @ + 1]
          /\ raised' = r.err
          /\ fitOn' = fitOn \cup {[flow |-> "refit", rows |-> Range(T.ids)]}
    /\ pc' = pc + 1
    /\ UNCHANGED <<nb, X, testIds, frames, objs, fitLog, lastScore, cvScores>>

Next ==
    \/ TrainTestSplit
    \/ SelectColumns
    \/ DefineObject
    \/ FitCall
    \/ TransformCall
    \/ ScoreCall
    \/ CrossValScore
    \/ GridSearchCV
    \/ SearchStart
    \/ SearchEvaluate
    \/ SearchRank
    \/ SearchRefit

Spec == Init /\ [][Next]_vars

\* The search run by a pool of workers (joblib's Parallel): the evaluations
\* are handed out in the order of enumeration, at most n_jobs of them are in
\* flight, they complete in any order, and what each returns is kept at the
\* place of its task in the list that Parallel returns.

\* The place in that list of what task t returned, in a search whose list
\* has the places of the tasks completed so far filled: joblib keeps the
\* order of the tasks, not of their completion.
OutSlotByCompletion(search, t) == Cardinality(DOMAIN search.out) + 1

OutSlot(search, t) == t

\* A worker is free and a task is left: the next task is handed to it.
PoolDispatch ==
    /\ Running /\ Stmt.op = "grid_search.fit" /\ gs.phase = "running"
    /\ gs.dispatched < NTasks(gs)
    /\ Cardinality(gs.inflight) < gs.n_jobs
    /\ gs' = [gs EXCEPT !.dispatched = @ + 1, !.inflight = @ \cup {gs.dispatched + 1}]
    /\ UNCHANGED <<nb, pc, X, testIds, frames, objs, raised, fitLog, fitOn, lastScore,
                   cvScores>>

\* Some task in flight completes: _fit_and_score of its combination and
\* fold, on a clone of the estimator.
PoolComplete ==
    /\ Running /\ Stmt.op = "grid_search.fit" /\ gs.phase = "running"
    /\ \E t \in gs.inflight :
          LET c == ((t - 1) \div gs.cv) + 1
              f == ((t - 1) % gs.cv) + 1
              e == FitAndScore(gs.est, gs.candidates[c], frames[Stmt.in], SalePrice,
                               gs.cv, f)
          IN IF e.err # ""
                THEN /\ gs' = [gs EXCEPT !.phase = "failed", !.inflight = {}]
                     /\ raised' = e.err
                     /\ pc' = pc + 1
                     /\ UNCHANGED fitOn
             ELSE /\ gs' = [gs EXCEPT !.est = BaseEstimator(@, gs.candidates[c]),
                                      !.inflight = @ \ {t},
                                      !.out = (OutSlot(gs, t) :> e) @@ @]
                  /\ fitOn' = fitOn \cup {[flow |-> "search", rows |-> e.rows]}
                  /\ UNCHANGED <<raised, pc>>
    /\ UNCHANGED <<nb, X, testIds, frames, objs, fitLog, lastScore, cvScores>>

\* Every task has completed: the list Parallel returns is read in the order
\* of the tasks, the folds of one combination side by side.
PoolCollect ==
    /\ Running /\ Stmt.op = "grid_search.fit" /\ gs.phase = "running"
    /\ gs.n_jobs > 1 /\ gs.done = 0
    /\ gs.dispatched = NTasks(gs) /\ gs.inflight = {}
    /\ gs' = [gs EXCEPT
              !.done = NTasks(gs),
              !.fitCount = NTasks(gs),
              !.scores = [c \in 1 .. Len(gs.candidates) |->
                            [f \in 1 .. gs.cv |-> gs.out[(c - 1) * gs.cv + f].score]],
              !.failed = {<<c, f>> \in (1 .. Len(gs.candidates)) \X (1 .. gs.cv) :
                            gs.out[(c - 1) * gs.cv + f].fit_failed}]
    /\ UNCHANGED <<nb, pc, X, testIds, frames, objs, raised, fitLog, fitOn, lastScore,
                   cvScores>>

NextPool ==
    \/ DefineObject
    \/ GridSearchCV
    \/ SearchStart
    \/ PoolDispatch
    \/ PoolComplete
    \/ PoolCollect
    \/ SearchRank
    \/ SearchRefit

InitPool ==
    /\ nb = "worker_pool"
    /\ pc = 1
    /\ X \in {DataFrame(numNa, catNa) :
                 numNa \in NumMissingChoices, catNa \in CatMissingChoices}
    /\ testIds = {}
    /\ frames = [f \in FrameNames |-> IF f = "X" THEN X ELSE NoTable]
    /\ objs = [o \in ObjNames |-> Unbound]
    /\ raised = ""
    /\ fitLog = <<>>
    /\ fitOn = {}
    /\ lastScore = ScoreNaN
    /\ cvScores = <<>>
    /\ gs = NoSearch

SpecPool == InitPool /\ [][NextPool]_vars

\* The notebook summary_3_grid_search alone, with the statements it has.
InitSearch ==
    /\ nb = "grid_search"
    /\ pc = 1
    /\ X \in {DataFrame(numNa, catNa) :
                 numNa \in NumMissingChoices, catNa \in CatMissingChoices}
    /\ testIds = {}
    /\ frames = [f \in FrameNames |-> IF f = "X" THEN X ELSE NoTable]
    /\ objs = [o \in ObjNames |-> Unbound]
    /\ raised = ""
    /\ fitLog = <<>>
    /\ fitOn = {}
    /\ lastScore = ScoreNaN
    /\ cvScores = <<>>
    /\ gs = NoSearch

NextSearch ==
    \/ TrainTestSplit
    \/ DefineObject
    \/ FitCall
    \/ ScoreCall
    \/ CrossValScore
    \/ GridSearchCV
    \/ SearchStart
    \/ SearchEvaluate
    \/ SearchRank
    \/ SearchRefit

SpecSearch == InitSearch /\ [][NextSearch]_vars

\* summary.md on the numeric columns of the table.
InitSummary ==
    /\ nb = "summary_md"
    /\ pc = 1
    /\ X \in {NumericFrame(lotNa, masNa) :
                 lotNa \in NumMissingChoices, masNa \in MasVnrMissingChoices}
    /\ testIds = {}
    /\ frames = [f \in FrameNames |-> IF f = "X" THEN X ELSE NoTable]
    /\ objs = [o \in ObjNames |-> Unbound]
    /\ raised = ""
    /\ fitLog = <<>>
    /\ fitOn = {}
    /\ lastScore = ScoreNaN
    /\ cvScores = <<>>
    /\ gs = NoSearch

NextSummary ==
    \/ TrainTestSplit
    \/ SelectColumnsWithNa
    \/ DefineObject
    \/ FitCall
    \/ TransformCall

SpecSummary == InitSummary /\ [][NextSummary]_vars

\* The cases run in place of the notebooks.
InitCases ==
    /\ nb \in Cases
    /\ pc = 1
    /\ X \in {DataFrame(numNa, catNa) :
                 numNa \in NumMissingChoices, catNa \in CatMissingChoices}
    /\ testIds = {}
    /\ frames = [f \in FrameNames |-> IF f = "X" THEN X ELSE NoTable]
    /\ objs = [o \in ObjNames |-> Unbound]
    /\ raised = ""
    /\ fitLog = <<>>
    /\ fitOn = {}
    /\ lastScore = ScoreNaN
    /\ cvScores = <<>>
    /\ gs = NoSearch

SpecCases == InitCases /\ [][Next]_vars

----------------------------------------------------------------------------
(* Properties *)

\* The search has produced cv_results_.
Ranked == gs.phase \in {"ranked", "done"}

\* C1 as stated: a complete grid_search.fit performs exactly n1*...*nm*k fit
\* operations of the pipeline, 20 for the 2x2 grid with k = 5.
C1_FitsAreCombinationsTimesFolds ==
    gs.phase = "done" => gs.fitCount = GridSize(gs.grid) * gs.cv

\* C1 amended: the cross-validation of a search performs exactly
\* n1*...*nm*k fits, one per combination and fold (20 for the 2x2 grid with
\* k = 5), and the complete run performs one more, the refit of the best
\* combination on the whole data (21).
C1_FitsAreCombinationsTimesFoldsPlusRefit ==
    /\ gs.phase = "running" => gs.fitCount = gs.done /\ gs.done <= GridSize(gs.grid) * gs.cv
    /\ gs.phase = "ranked" =>
          /\ gs.fitCount = GridSize(gs.grid) * gs.cv
          /\ gs.grid = Grid2x2 /\ gs.cv = DefaultCV => gs.fitCount = 20
    /\ gs.phase = "done" =>
          /\ gs.fitCount = GridSize(gs.grid) * gs.cv + 1
          /\ gs.grid = Grid2x2 /\ gs.cv = DefaultCV => gs.fitCount = 21

C1_Witness ==
    gs.phase = "done" /\ gs.grid = Grid2x2 /\ gs.cv = DefaultCV /\ gs.fitCount = 21


\* C2: after a search, best_params_ is the row of cv_results_ with rank 1,
\* best_score_ is that row's mean_test_score, and no row has a greater mean.
C2_BestIsRankOneWithGreatestMean ==
    Ranked =>
        /\ gs.best_index \in 1 .. Len(gs.candidates)
        /\ gs.ranks[gs.best_index] = 1
        /\ gs.best_params = gs.candidates[gs.best_index]
        /\ gs.best_score = MeanScore(gs.scores[gs.best_index])
        /\ \A c \in 1 .. Len(gs.candidates) :
              SeqSum(gs.scores[c]) <= SeqSum(gs.scores[gs.best_index])

\* A finished search whose best row is neither the first nor the last one and
\* beats some other row.
C2_Witness ==
    /\ gs.phase = "done"
    /\ gs.best_index \notin {1, Len(gs.candidates)}
    /\ \E c \in 1 .. Len(gs.candidates) :
          SeqSum(gs.scores[c]) < SeqSum(gs.scores[gs.best_index])

\* The elements of the Cartesian product of the grid's value lists: one value
\* position per key.
GridProduct(grid) ==
    {pick \in [1 .. Len(grid) -> 1 .. GridSize(grid)] :
        \A j \in 1 .. Len(grid) : pick[j] <= Len(grid[j].values)}

\* The combination holds the picked value for every key of the grid.
Picks(combination, grid, pick) ==
    \A j \in 1 .. Len(grid) :
        \E i \in 1 .. Len(combination) :
            /\ combination[i].key = grid[j].key
            /\ combination[i].value = grid[j].values[pick[j]]

\* C3: cv_results_ has exactly one row per element of the Cartesian product
\* of the grid's value lists, and every row holds k fold scores: 4 rows for
\* the 2x2 grid, 8 for the 2x2x2 grid, 12 rows of 5 scores for the notebook's
\* grid with the default fold count.
C3_OneRowPerCombination ==
    Ranked =>
        /\ \A pick \in GridProduct(gs.grid) :
              Cardinality({c \in 1 .. Len(gs.candidates) :
                              Picks(gs.candidates[c], gs.grid, pick)}) = 1
        /\ \A c \in 1 .. Len(gs.candidates) :
              /\ Len(gs.candidates[c]) = Len(gs.grid)
              /\ \E pick \in GridProduct(gs.grid) : Picks(gs.candidates[c], gs.grid, pick)
        /\ Len(gs.scores) = Len(gs.candidates) /\ Len(gs.means) = Len(gs.candidates)
        /\ Len(gs.ranks) = Len(gs.candidates)
        /\ \A c \in 1 .. Len(gs.candidates) : Len(gs.scores[c]) = gs.cv
        /\ gs.grid = Grid2x2 => Len(gs.candidates) = 4
        /\ gs.grid = Grid2x2x2 => Len(gs.candidates) = 8
        /\ gs.grid = param => Len(gs.candidates) = 12
        /\ gs.grid = param /\ gs.cv = DefaultCV =>
              \A c \in 1 .. 12 : Len(gs.scores[c]) = 5

C3_Witness ==
    /\ gs.phase = "done" /\ gs.grid = param /\ gs.cv = DefaultCV
    /\ Len(gs.candidates) = 12
    /\ \A c \in 1 .. 12 : Len(gs.scores[c]) = 5


\* The rank a stable sort by mean descending gives row c: rows of equal mean
\* are ranked in their enumeration order.
StableRank(scores, c) ==
    1 + Cardinality({d \in 1 .. Len(scores) :
            \/ SeqSum(scores[d]) > SeqSum(scores[c])
            \/ SeqSum(scores[d]) = SeqSum(scores[c]) /\ d < c})

\* C4 as stated: the rows are ranked by a stable sort on the mean score, so
\* that of rows with equal mean the earlier one has the better rank and rank 1
\* is held by exactly one row.
C4_RanksAreAStableSort ==
    Ranked =>
        /\ \A c \in 1 .. Len(gs.candidates) : gs.ranks[c] = StableRank(gs.scores, c)
        /\ Cardinality({c \in 1 .. Len(gs.candidates) : gs.ranks[c] = 1}) = 1

\* C4 amended: rows are ranked by mean score descending and rows of equal
\* mean share one rank (one more than the number of rows of greater mean), so
\* rank 1 may be held by several rows; the row reported as best is the
\* earliest enumerated row of rank 1.
C4_TiesShareRankBestIsEarliest ==
    Ranked =>
        /\ \A c, d \in 1 .. Len(gs.candidates) :
              /\ SeqSum(gs.scores[c]) = SeqSum(gs.scores[d]) => gs.ranks[c] = gs.ranks[d]
              /\ SeqSum(gs.scores[c]) > SeqSum(gs.scores[d]) => gs.ranks[c] < gs.ranks[d]
        /\ \A c \in 1 .. Len(gs.candidates) :
              gs.ranks[c] = 1 + Cardinality({d \in 1 .. Len(gs.candidates) :
                                    SeqSum(gs.scores[d]) > SeqSum(gs.scores[c])})
        /\ gs.ranks[gs.best_index] = 1
        /\ \A c \in 1 .. gs.best_index - 1 : gs.ranks[c] > 1
        /\ gs.best_params = gs.candidates[gs.best_index]

\* A finished search in which several rows tie for the greatest mean and the
\* first row is not among them.
C4_Witness ==
    /\ gs.phase = "done"
    /\ Cardinality({c \in 1 .. Len(gs.candidates) : gs.ranks[c] = 1}) > 1
    /\ gs.ranks[1] > 1


----------------------------------------------------------------------------
(* Properties of the fit calls *)

\* The statement that was just run.
LastStmt == Program(nb)[pc - 1]

\* The statement just run was a call of the given kind.
JustRan(op) == pc > 1 /\ LastStmt.op = op

\* How the whole of a held-out row is replaced in a perturbed table.
Patterns == {"same", "nan", "big"}

\* The cell a pattern puts in a column.
AltCell(col, pattern) ==
    IF pattern = "nan" THEN NaNOf(col.dtype)
    ELSE IF col.dtype = "number" THEN 9 * Unit
    ELSE IF col.name = <<"MSZoning">> THEN "RM" ELSE "Grvl"

\* T with the rows named in pat replaced as pat says.
Perturbed(T, pat) ==
    Table(T.ids,
          [j \in 1 .. Len(T.cols) |->
              Column(T.cols[j].name, T.cols[j].dtype,
                     [i \in 1 .. Len(T.ids) |->
                         IF T.ids[i] \in DOMAIN pat /\ pat[T.ids[i]] # "same"
                             THEN AltCell(T.cols[j], pat[T.ids[i]])
                         ELSE T.cols[j].vals[i]])])

\* The targets that agree with SalePrice outside the held-out rows.
Targets(held) == {SalePrice, [r \in RowIds |-> IF r \in held THEN 4 ELSE SalePrice[r]]}

\* The table a fit statement on the training partition is handed when the
\* table read is X2 and the held-out rows are held.
TrainingInput(X2, held, in) ==
    LET train == TakeRows(X2, PositionsOf(X2, TrainRows(held)))
    IN IF in = "X_temp" THEN SelectCols(train, num_cols) ELSE train

\* C5: what a fit on the training partition learns is a function of the
\* training partition only: whatever the cells and the targets of the
\* held-out rows are, the same call ends with the same learned state in every
\* step (and the same exception, if it raises).
C5_LearnedStateIgnoresHeldOutRows ==
    (JustRan("fit") /\ LastStmt.in \in {"X_train", "X_temp"}) =>
        \A pat \in [testIds -> Patterns], target \in Targets(testIds) :
            LET T2 == TrainingInput(Perturbed(X, pat), testIds, LastStmt.in)
                r == Fit(objs[LastStmt.obj].est, T2, TargetOf(target, T2),
                         <<LastStmt.obj>>)
            IN /\ r.err = raised
               /\ AfterFit(objs[LastStmt.obj], r) = objs[LastStmt.obj]
               /\ r.log = fitLog

\* The imputer was fit on the training partition, and some change of the
\* held-out rows would have changed its statistics had it been fit on the
\* whole table.
C5_Witness ==
    /\ JustRan("fit") /\ LastStmt.obj = "imputer" /\ objs["imputer"].fitted
    /\ \E pat \in [testIds -> Patterns] :
          ImputerLearn(objs["imputer"].est, SelectCols(Perturbed(X, pat), num_cols))
              # objs["imputer"].learned


\* The identifiers of the rows of T that the estimator of fold f of k is fit
\* on.
FoldTrainIds(T, k, f) ==
    {T.ids[TrainPositions(Len(T.ids), k, f)[i]] :
        i \in 1 .. Len(TrainPositions(Len(T.ids), k, f))}

\* C6 as stated: the split comes before any fit, and no step is ever fit on
\* a row set that holds a row of the held-out partition X_test.
C6_NoFitOnHeldOutRows ==
    /\ fitOn # {} => testIds # {}
    /\ \A e \in fitOn : e.rows \cap testIds = {}

\* C6 amended: the split comes before any fit, and a direct fit is on rows
\* of the training partition only; cross_val_score and the grid search are
\* handed the whole table X, so each of their fits is on the training rows of
\* one fold of X (all rows of X but the fold's, X_test's rows among them),
\* and the refit that ends the search is on every row of X.
C6_FitsOnTrainingRowsOrFoldsOfX ==
    /\ fitOn # {} => testIds # {} /\ frames["X_train"] # NoTable
    /\ \A e \in fitOn :
          /\ e.flow = "fit" => e.rows = RowIds \ testIds
          /\ e.flow = "cross_val_score" =>
                \E f \in 1 .. DefaultCV : e.rows = FoldTrainIds(X, DefaultCV, f)
          /\ e.flow = "search" =>
                \E f \in 1 .. gs.cv : e.rows = FoldTrainIds(X, gs.cv, f)
          /\ e.flow = "refit" => e.rows = RowIds
    /\ gs.phase \in {"ranked", "done"} =>
          \A f \in 1 .. gs.cv : [flow |-> "search", rows |-> FoldTrainIds(X, gs.cv, f)] \in fitOn

\* The notebook has run to its end: the pipeline was fit on the training
\* partition, and cross_val_score, the search and its refit each fit a step
\* on rows of X_test.
C6_Witness ==
    /\ gs.phase = "done" /\ testIds # {}
    /\ \E e \in fitOn : e.flow = "fit" /\ e.rows = RowIds \ testIds
    /\ \A flow \in {"cross_val_score", "search", "refit"} :
          \E e \in fitOn : e.flow = flow /\ e.rows \cap testIds # {}

\* The table the step named by path, inside the fitted estimator est, is to
\* be fit on when est is fit on T: a Pipeline hands a step what its fitted
\* steps before it make of the Pipeline's input, a ColumnTransformer hands an
\* entry its columns.
RECURSIVE ExpectedInput(_, _, _, _)
ExpectedInput(est, learned, T, path) ==
    IF path = <<>> THEN T
    ELSE IF est.kind = "Pipeline"
        THEN LET i == CHOOSE i \in 1 .. Len(est.steps) : est.steps[i].name = path[1]
                 Xt == TransformSteps(SubSeq(est.steps, 1, i - 1), learned, 1, T).out
             IN ExpectedInput(est.steps[i].est, learned[i], Xt, Tail(path))
    ELSE LET k == CHOOSE k \in 1 .. Len(est.transformers) :
                      est.transformers[k].name = path[1]
         IN ExpectedInput(est.transformers[k].est, learned[k],
                          SelectCols(T, est.transformers[k].cols), Tail(path))

\* The names of the steps of a Pipeline, in declaration order.
StepNames(est) == [i \in 1 .. Len(est.steps) |-> est.steps[i].name]

\* The step of the Pipeline that each fit call of the log was made in.
LoggedSteps(log) == [i \in 1 .. Len(log) |-> log[i].step[2]]

\* C7: a Pipeline's fit fits its steps strictly in declaration order, the
\* first on the Pipeline's input and every later one on what the already
\* fitted steps before it make of that input; a fit that raises has fit a
\* prefix of the steps.
C7_StepsAreFitInOrderOnPreviousOutput ==
    (JustRan("fit") /\ objs[LastStmt.obj].est.kind = "Pipeline") =>
        LET est == objs[LastStmt.obj].est
            steps == Dedup(LoggedSteps(fitLog))
        IN /\ steps = SubSeq(StepNames(est), 1, Len(steps))
           /\ \A a, b \in 1 .. Len(fitLog) :
                 a < b =>
                    (CHOOSE i \in 1 .. Len(steps) : steps[i] = fitLog[a].step[2])
                    <= (CHOOSE i \in 1 .. Len(steps) : steps[i] = fitLog[b].step[2])
           /\ raised = "" =>
                 /\ steps = StepNames(est)
                 /\ \A a \in 1 .. Len(fitLog) :
                       fitLog[a].input =
                           ExpectedInput(est, objs[LastStmt.obj].learned,
                                         frames[LastStmt.in], Tail(fitLog[a].step))

\* The three-step Pipeline was fit: the scaler was handed the imputer's
\* output and the lasso the scaler's, and neither is the Pipeline's input.
C7_Witness ==
    /\ JustRan("fit") /\ LastStmt.obj = "pipe" /\ raised = ""
    /\ LoggedSteps(fitLog) = <<"imputer", "scaler", "lasso">>
    /\ fitLog[1].input = frames[LastStmt.in]
    /\ fitLog[2].input # frames[LastStmt.in]
    /\ fitLog[3].input # frames[LastStmt.in]
    /\ fitLog[3].input # fitLog[2].input

\* C8: a transform or a score of a fitted object leaves the learned state of
\* every step as fit left it, whatever table it is applied to; the data goes
\* through the fitted steps in their order.
C8_ApplyKeepsLearnedState ==
    [][(Running /\ Stmt.op \in {"transform", "score"}) =>
          /\ objs' = objs
          /\ (Stmt.op = "score" /\ objs[Stmt.obj].est.kind = "Pipeline"
                  /\ lastScore' # ScoreNaN) =>
                lastScore' =
                    LassoScore(objs[Stmt.obj].learned[Len(objs[Stmt.obj].est.steps)],
                               TransformSteps(Front(objs[Stmt.obj].est.steps),
                                              objs[Stmt.obj].learned, 1,
                                              frames[Stmt.in]).out,
                               TargetOf(SalePrice, frames[Stmt.in])).score]_vars

\* The pipeline fit on X_train has scored the held-out X_test, and a fit on
\* X_test would have learned something else.
C8_Witness ==
    /\ JustRan("score") /\ LastStmt.in = "X_test" /\ raised = ""
    /\ lastScore # ScoreNaN
    /\ objs["pipe"].fitted
    /\ Fit(objs["pipe"].est, frames["X_test"],
           TargetOf(SalePrice, frames["X_test"]), <<>>).learned # objs["pipe"].learned


\* The ColumnTransformer a fit statement fits: the object itself, or the
\* first step of the Pipeline that the object is.
CombinerOf(est) == IF est.kind = "Pipeline" THEN est.steps[1].est ELSE est

\* The depth in a step path at which the entry of that ColumnTransformer is
\* named.
EntryDepth(est) == IF est.kind = "Pipeline" THEN 3 ELSE 2

HasCombiner(est) ==
    \/ est.kind = "ColumnTransformer"
    \/ est.kind = "Pipeline" /\ est.steps[1].est.kind = "ColumnTransformer"

\* The entry of the ColumnTransformer ct that is named name.
EntryNamed(ct, name) ==
    ct.transformers[CHOOSE k \in 1 .. Len(ct.transformers) :
                        ct.transformers[k].name = name]

\* The fit call is the first one made inside its entry: on the entry's
\* transformer itself, or on the first step of the Pipeline that it is.
FirstOfEntry(entry, event, depth) ==
    \/ Len(event.step) = depth
    \/ /\ Len(event.step) = depth + 1 /\ entry.est.kind = "Pipeline"
       /\ event.step[depth + 1] = entry.est.steps[1].name

\* The columns of T outside the group cols, each as it is or replaced whole:
\* every cell missing, or every cell the same value.
ChangedOutside(T, cols) ==
    {Table(T.ids,
           [j \in 1 .. Len(T.cols) |->
               IF T.cols[j].name \in Range(cols) \/ how[j] = "same" THEN T.cols[j]
               ELSE Column(T.cols[j].name, T.cols[j].dtype,
                           [i \in 1 .. Len(T.ids) |-> AltCell(T.cols[j], how[j])])]) :
        how \in [1 .. Len(T.cols) -> Patterns]}

\* The columns of the table out that stem from the columns cols.
ColumnsFrom(out, cols) ==
    LET mine(col) == <<col.name[1]>> \in Range(cols)
    IN SelectSeq(out.cols, mine)

\* C9: every entry of a ColumnTransformer is fit on the columns of its own
\* group, taken from the table the ColumnTransformer was handed, and on
\* nothing else: not on the output of another entry (with an imputer and an
\* encoder both on cat_cols the encoder is handed cat_cols as they were, not
\* imputed), and what an entry learns and puts out is the same whatever the
\* columns outside its group hold.
C9_EntriesAreFitOnTheirOwnColumns ==
    (JustRan("fit") /\ HasCombiner(objs[LastStmt.obj].est)) =>
        LET est == objs[LastStmt.obj].est
            ct == CombinerOf(est)
            depth == EntryDepth(est)
            T == frames[LastStmt.in]
        IN /\ \A a \in 1 .. Len(fitLog) :
                 Len(fitLog[a].step) >= depth =>
                    LET entry == EntryNamed(ct, fitLog[a].step[depth])
                    IN /\ FirstOfEntry(entry, fitLog[a], depth) =>
                             fitLog[a].input = SelectCols(T, entry.cols)
                       /\ fitLog[a].input.ids = T.ids
                       /\ \A j \in 1 .. Len(fitLog[a].input.cols) :
                             <<fitLog[a].input.cols[j].name[1]>> \in Range(entry.cols)
           /\ (est.kind = "ColumnTransformer" /\ raised = "") =>
                 \A k \in 1 .. Len(ct.transformers) :
                    \A T2 \in ChangedOutside(T, ct.transformers[k].cols) :
                       LET r == Fit(est, T, TargetOf(SalePrice, T), <<>>)
                           r2 == Fit(est, T2, TargetOf(SalePrice, T2), <<>>)
                       IN r2.err = "" =>
                             /\ r2.learned[k] = objs[LastStmt.obj].learned[k]
                             /\ ColumnsFrom(r2.out, ct.transformers[k].cols)
                                    = ColumnsFrom(r.out, ct.transformers[k].cols)

\* The ColumnTransformer with an imputer and an encoder on cat_cols was fit:
\* the imputer of cat_cols came first, and the encoder was still handed the
\* cat_cols of X_train with their missing cells.
C9_Witness ==
    /\ JustRan("fit") /\ LastStmt.obj = "transformer"
    /\ Len(fitLog) = 4
    /\ fitLog[3].step = <<"transformer", "categorical_imputer">>
    /\ fitLog[4].step = <<"transformer", "categorical_encoder">>
    /\ fitLog[4].input = SelectCols(frames["X_train"], cat_cols)
    /\ \E j \in 1 .. Len(fitLog[4].input.cols) : HasMissing(fitLog[4].input.cols[j])

\* The orders of n columns: the permutations of 1 .. n.
ColumnOrders(n) ==
    {f \in [1 .. n -> 1 .. n] : \A i, j \in 1 .. n : f[i] = f[j] => i = j}

\* T with its columns in the order perm.
PermuteCols(T, perm) == Table(T.ids, [j \in 1 .. Len(T.cols) |-> T.cols[perm[j]]])

\* What the entries of the fitted ColumnTransformer ct make, each of its own
\* columns of T.
BranchOutputs(ct, learned, T) ==
    [k \in 1 .. Len(ct.transformers) |->
        Transform(ct.transformers[k].est, learned[k],
                  SelectCols(T, ct.transformers[k].cols)).out]

\* No column of T is missing in every row.
NoEmptyColumn(T) ==
    \A j \in 1 .. Len(T.cols) : \E i \in 1 .. Len(T.ids) : ~IsMissing(T.cols[j], i)

\* C10: the table a ColumnTransformer puts out is the output columns of its
\* entries side by side in the declaration order of the entries, whatever the
\* order of the columns in the table it is handed; with imputers on
\* (num_cols, cat_cols) that keep every column, its columns are
\* list(num_cols) + list(cat_cols).
C10_OutputIsBranchesInDeclarationOrder ==
    /\ (JustRan("transform") /\ raised = "") =>
          LET ct == objs[LastStmt.obj].est
              learned == objs[LastStmt.obj].learned
              T == frames[LastStmt.in]
              out == frames[LastStmt.out]
          IN /\ out.cols = Concat(
                    [k \in 1 .. Len(ct.transformers) |-> BranchOutputs(ct, learned, T)[k].cols])
             /\ out.ids = T.ids
             /\ \A perm \in ColumnOrders(Len(T.cols)) :
                   Transform(ct, learned, PermuteCols(T, perm)).out = out
             /\ NoEmptyColumn(T) => ColNames(out) = num_cols \o cat_cols
    /\ (JustRan("fit") /\ raised = "" /\ objs[LastStmt.obj].est.kind = "Pipeline"
           /\ HasCombiner(objs[LastStmt.obj].est)) =>
          LET ct == CombinerOf(objs[LastStmt.obj].est)
              learned == objs[LastStmt.obj].learned[1]
              T == frames[LastStmt.in]
          IN fitLog[Len(fitLog)].input.cols = Concat(
                [k \in 1 .. Len(ct.transformers) |-> BranchOutputs(ct, learned, T)[k].cols])

\* X_train_transformed is bound: its columns are num_cols then cat_cols, which
\* is not the order of the columns of X_train.
C10_Witness ==
    /\ JustRan("transform") /\ raised = ""
    /\ ColNames(frames["X_train_transformed"]) = num_cols \o cat_cols
    /\ ColNames(frames["X_train"]) # num_cols \o cat_cols
    /\ Range(ColNames(frames["X_train"])) = Range(num_cols \o cat_cols)


----------------------------------------------------------------------------
(* Properties of the ColumnTransformer's output and of its column groups *)

\* The ColumnTransformer ct with its entries declared in the order perm.
Reordered(ct, perm) ==
    ColumnTransformer([k \in 1 .. Len(ct.transformers) |-> ct.transformers[perm[k]]])

\* A ColumnTransformer has just been applied or fit with success: alone by
\* transform, or as the first step of a Pipeline by fit.
CombinerRan ==
    \/ JustRan("transform") /\ raised = ""
           /\ objs[LastStmt.obj].est.kind = "ColumnTransformer"
    \/ JustRan("fit") /\ raised = "" /\ objs[LastStmt.obj].est.kind = "Pipeline"
           /\ HasCombiner(objs[LastStmt.obj].est)

\* What that ColumnTransformer has learned.
CombinerLearned ==
    IF objs[LastStmt.obj].est.kind = "Pipeline" THEN objs[LastStmt.obj].learned[1]
    ELSE objs[LastStmt.obj].learned

\* The table that ColumnTransformer has put out: the table transform
\* returned, or the table the Pipeline's last step was fit on.
CombinerOutput ==
    IF objs[LastStmt.obj].est.kind = "Pipeline" THEN fitLog[Len(fitLog)].input
    ELSE frames[LastStmt.out]

\* C11: the output of a ColumnTransformer has as many columns as its
\* entries put out together, and declaring the entries in another order
\* moves their blocks of columns to that order and changes neither the
\* number of columns nor any cell of a block.
C11_ColumnCountIsSumAndOrderMovesBlocks ==
    CombinerRan =>
        LET ct == CombinerOf(objs[LastStmt.obj].est)
            T == frames[LastStmt.in]
            branches == BranchOutputs(ct, CombinerLearned, T)
        IN /\ NCols(CombinerOutput)
                 = SeqSum([k \in 1 .. Len(branches) |-> NCols(branches[k])])
           /\ \A perm \in ColumnOrders(Len(ct.transformers)) :
                 LET r == Fit(Reordered(ct, perm), T, TargetOf(SalePrice, T), <<>>)
                 IN /\ r.err = ""
                    /\ NCols(r.out) = NCols(CombinerOutput)
                    /\ r.out.cols
                           = Concat([k \in 1 .. Len(branches) |-> branches[perm[k]].cols])

\* transformer.transform(X_train) has put out the two columns of each group,
\* and with the groups declared the other way round the two blocks change
\* places.
C11_Witness ==
    /\ JustRan("transform") /\ raised = "" /\ NCols(CombinerOutput) = 4
    /\ LET ct == objs[LastStmt.obj].est
           T == frames[LastStmt.in]
           r == Fit(Reordered(ct, <<2, 1>>), T, TargetOf(SalePrice, T), <<>>)
       IN /\ r.out.cols # CombinerOutput.cols
          /\ SubSeq(r.out.cols, 1, 2) = SubSeq(CombinerOutput.cols, 3, 4)
          /\ SubSeq(r.out.cols, 3, 4) = SubSeq(CombinerOutput.cols, 1, 2)


\* The positions of the entries of ct that have a column.
NonEmptyEntries(ct) ==
    LET some(k) == ct.transformers[k].cols # <<>>
    IN SelectSeq([k \in 1 .. Len(ct.transformers) |-> k], some)

HasEmptyGroup(ct) == Len(NonEmptyEntries(ct)) < Len(ct.transformers)

\* ct without its entries of no column.
WithoutEmptyGroups(ct) ==
    ColumnTransformer([i \in 1 .. Len(NonEmptyEntries(ct)) |->
                          ct.transformers[NonEmptyEntries(ct)[i]]])

\* A ColumnTransformer with an entry of no column has just been fit or
\* applied, alone or as the first step of a Pipeline.
EmptyGroupRan ==
    /\ pc > 1 /\ LastStmt.op \in {"fit", "transform"}
    /\ HasCombiner(objs[LastStmt.obj].est)
    /\ HasEmptyGroup(CombinerOf(objs[LastStmt.obj].est))

\* C12: a ColumnTransformer one of whose groups has no column fits and
\* transforms without error; the entry of that group is not fit and puts out
\* no column, and the output is what the other entries alone put out.
C12_EmptyGroupAddsNothing ==
    EmptyGroupRan =>
        LET est == objs[LastStmt.obj].est
            ct == CombinerOf(est)
            T == frames[LastStmt.in]
            kept == NonEmptyEntries(ct)
            learned == [i \in 1 .. Len(kept) |-> CombinerLearned[kept[i]]]
        IN /\ raised = ""
           /\ objs[LastStmt.obj].fitted
           /\ \A k \in 1 .. Len(ct.transformers) :
                 ct.transformers[k].cols = <<>> =>
                    /\ CombinerLearned[k] = <<>>
                    /\ LastStmt.op = "fit" =>
                          \A a \in 1 .. Len(fitLog) :
                             Len(fitLog[a].step) >= EntryDepth(est) =>
                                fitLog[a].step[EntryDepth(est)] # ct.transformers[k].name
           /\ (LastStmt.op = "transform" \/ est.kind = "Pipeline") =>
                 CombinerOutput = Transform(WithoutEmptyGroups(ct), learned, T).out
           /\ LastStmt.op = "fit" =>
                 Fit(WithoutEmptyGroups(ct), T, TargetOf(SalePrice, T), <<>>).learned = learned

\* The transformer whose categorical group is empty has transformed X_train
\* into the two imputed numerical columns.
C12_Witness ==
    /\ EmptyGroupRan /\ LastStmt.op = "transform" /\ raised = ""
    /\ objs["transformer"].est.transformers[2].cols = <<>>
    /\ ColNames(frames["X_train_transformed"]) = num_cols


\* A Pipeline of transformers only has just returned from fit_transform.
TransformerPipelineRan ==
    /\ JustRan("fit") /\ raised = "" /\ LastStmt.out # ""
    /\ objs[LastStmt.obj].est.kind = "Pipeline"
    /\ \A i \in 1 .. Len(objs[LastStmt.obj].est.steps) :
          IsTransformer(objs[LastStmt.obj].est.steps[i].est)

\* C13 as stated: the output of every Pipeline of transformers that the
\* notebooks define (imputer and scaler, imputer and one-hot encoder, the
\* imputer with add_indicator True or False) has the columns of its input:
\* as many, in the same order.
C13_PipelineOutputColumnsAreInputColumns ==
    TransformerPipelineRan =>
        /\ NCols(frames[LastStmt.out]) = NCols(frames[LastStmt.in])
        /\ ColNames(frames[LastStmt.out]) = ColNames(frames[LastStmt.in])


----------------------------------------------------------------------------
(* Properties of the errors of a search and of a fit *)

\* Some key of the grid names no parameter of the estimator.
Unresolved(est, grid) ==
    \E j \in 1 .. Len(grid) :
        SetParam(est, grid[j].key, grid[j].values[1]).err = InvalidParameter

\* No statement is left to run.
Finished == pc > Len(Program(nb))

UnknownStrategy == "ValueError: Can only use these strategies"

RECURSIVE CarriesUnknownStrategy(_)

\* Some imputer that a fit of est reaches has a strategy that is not one.
CarriesUnknownStrategy(est) ==
    CASE est.kind = "SimpleImputer" -> est.strategy \notin Strategies
      [] est.kind = "Pipeline" ->
            \E i \in 1 .. Len(est.steps) : CarriesUnknownStrategy(est.steps[i].est)
      [] est.kind = "ColumnTransformer" ->
            \E k \in 1 .. Len(est.transformers) :
                /\ est.transformers[k].cols # <<>>
                /\ CarriesUnknownStrategy(est.transformers[k].est)
      [] OTHER -> FALSE

RECURSIVE StepAt(_, _)

\* The estimator that a path of step (entry) names leads to inside est.
StepAt(est, path) ==
    IF path = <<>> THEN est
    ELSE IF est.kind = "Pipeline"
        THEN StepAt(est.steps[CHOOSE i \in 1 .. Len(est.steps) :
                                  est.steps[i].name = path[1]].est, Tail(path))
    ELSE StepAt(est.transformers[CHOOSE k \in 1 .. Len(est.transformers) :
                                     est.transformers[k].name = path[1]].est,
                Tail(path))

\* The pipeline of the search with the parameters of combination c.
CandidateEstimator(c) == SetParams(gs.est, gs.candidates[c], 1).est

\* The search has been handed the data and its combinations resolve.
SearchUnderWay ==
    /\ gs.phase \in {"running", "ranked", "done", "failed"}
    /\ gs.candidates # <<>>
    /\ ~Unresolved(gs.est, gs.grid)

\* Fold f of combination c is among the evaluations made so far.
Evaluated(c, f) == (c - 1) * gs.cv + f <= gs.done

\* The fit of the (combination, fold) pair t of the search raises.
FitRaises(t) ==
    LET train == FitRows(X, gs.cv, t[2])
    IN Fit(CandidateEstimator(t[1]), train, TargetOf(SalePrice, train), <<>>).err # ""

\* The evaluations whose record a state is held against: while the search
\* runs the one just made, and once the evaluations are over every one.
Recorded ==
    IF gs.phase = "running"
        THEN {t \in {<<TaskCandidate([gs EXCEPT !.done = @ - 1]),
                       TaskFold([gs EXCEPT !.done = @ - 1])>>} : gs.done > 0}
    ELSE (1 .. Len(gs.candidates)) \X (1 .. gs.cv)

\* The evaluation the search has just made, while it runs.
JustEvaluated == IF gs.phase = "running" THEN Recorded ELSE {}

\* C15 as stated: a strategy name that is not a strategy, in the base
\* pipeline or in a value of the grid, is fatal and reported before any step,
\* combination or fold is fit (the call that raises apart).
C15_UnknownStrategyIsFatalBeforeAnyFit ==
    /\ (JustRan("fit") /\ CarriesUnknownStrategy(objs[LastStmt.obj].est)) =>
          raised = UnknownStrategy /\ Len(fitLog) <= 1
    /\ (SearchUnderWay
          /\ \E c \in 1 .. Len(gs.candidates) :
                CarriesUnknownStrategy(CandidateEstimator(c))) =>
          /\ gs.fitCount = 0
          /\ gs.phase \in {"running", "failed"}
          /\ Finished => raised = UnknownStrategy

\* C15, amended: the unknown name is reported by the fit of the imputer that
\* carries it.  A fit of the base pipeline raises at that imputer, after the
\* steps and entries before it were fit and before any later one is, and the
\* pipeline stays unfitted.  In a search every fold of a combination with the
\* unknown name is recorded as a failed fit of score NaN, every other
\* combination is fit and scored on every fold, and the search fails only
\* when the refit of the best combination raises, which is when every
\* combination carries the unknown name.
C15_UnknownStrategyFailsTheFitOfItsImputer ==
    /\ (JustRan("fit") /\ CarriesUnknownStrategy(objs[LastStmt.obj].est)) =>
          LET est == objs[LastStmt.obj].est
              at(a) == StepAt(est, Tail(fitLog[a].step))
          IN /\ raised = UnknownStrategy
             /\ ~objs[LastStmt.obj].fitted
             /\ fitLog # <<>>
             /\ at(Len(fitLog)).kind = "SimpleImputer"
             /\ at(Len(fitLog)).strategy \notin Strategies
             /\ \A a \in 1 .. Len(fitLog) - 1 : ~CarriesUnknownStrategy(at(a))
             /\ est.kind = "Pipeline" /\ Len(est.steps) > 1 =>
                   est.steps[Len(est.steps)].name \notin Range(LoggedSteps(fitLog))
    /\ (SearchUnderWay
          /\ \E c \in 1 .. Len(gs.candidates) :
                CarriesUnknownStrategy(CandidateEstimator(c))) =>
          /\ \A c \in 1 .. Len(gs.candidates) :
                \A f \in 1 .. Len(gs.scores[c]) :
                    IF CarriesUnknownStrategy(CandidateEstimator(c))
                        THEN gs.scores[c][f] = ScoreNaN /\ <<c, f>> \in gs.failed
                    ELSE gs.scores[c][f] # ScoreNaN /\ <<c, f>> \notin gs.failed
          /\ \A t \in Recorded :
                ~CarriesUnknownStrategy(CandidateEstimator(t[1])) =>
                    gs.scores[t[1]][t[2]] =
                        FitAndScore(gs.est, gs.candidates[t[1]], X, SalePrice,
                                    gs.cv, t[2]).score
          /\ gs.phase = "failed" =>
                /\ raised = UnknownStrategy
                /\ gs.done = NTasks(gs)
                /\ \A c \in 1 .. Len(gs.candidates) :
                      CarriesUnknownStrategy(CandidateEstimator(c))
          /\ Finished =>
                /\ gs.phase \in {"done", "failed"}
                /\ gs.phase = "done" <=>
                      ~CarriesUnknownStrategy(CandidateEstimator(gs.best_index))

\* The search over strategy = [mean, average, median] is over: the folds of
\* 'average' are failed fits, those of 'mean' (enumerated before it) and of
\* 'median' are scored, and the best combination was refit.
C15_Witness ==
    /\ Finished /\ gs.phase = "done" /\ raised = ""
    /\ gs.grid = <<GridItem(NumStrategyKey, <<"mean", "average", "median">>)>>
    /\ gs.failed = {<<2, f>> : f \in 1 .. gs.cv}
    /\ gs.fitCount = 3 * gs.cv + 1
    /\ gs.best_index \in {1, 3}

\* The exception of a ColumnTransformer one of whose columns the table lacks.
NotAColumn == "ValueError: A given column is not a column of the dataframe"

\* Some group of the ColumnTransformer ct names a column that T does not have.
NamesAbsentColumn(ct, T) ==
    \E k \in 1 .. Len(ct.transformers) :
        \E c \in 1 .. Len(ct.transformers[k].cols) :
            ~HasColumn(T, ct.transformers[k].cols[c])

\* A ColumnTransformer with a group that names an absent column has just been
\* fit, alone or as the first step of a Pipeline.
AbsentColumnFit ==
    /\ JustRan("fit") /\ HasCombiner(objs[LastStmt.obj].est)
    /\ NamesAbsentColumn(CombinerOf(objs[LastStmt.obj].est), frames[LastStmt.in])

\* C16: when a group of a ColumnTransformer names a column the table does not
\* have, the fit raises, and it raises before any entry (or any step of an
\* entry, or any step that follows the ColumnTransformer) has been fit,
\* whichever group the absent name is in; the object stays unfitted.
C16_AbsentColumnFailsBeforeAnyEntryIsFit ==
    AbsentColumnFit =>
        /\ raised = NotAColumn
        /\ fitLog = <<>>
        /\ ~objs[LastStmt.obj].fitted /\ objs[LastStmt.obj].learned = <<>>
        /\ \A e \in fitOn : e.flow # "fit"

\* The transformer whose second group names an absent column after its real
\* ones has been fit on X_train: the fit raised and the first group, all of
\* whose columns exist, was not fit.
C16_Witness ==
    /\ AbsentColumnFit /\ raised = NotAColumn
    /\ LastStmt.obj = "transformer"
    /\ ~NamesAbsentColumn(
           [objs["transformer"].est EXCEPT
               !.transformers = SubSeq(@, 1, 1)], frames["X_train"])
    /\ objs["transformer"].est.transformers[2].cols = Append(cat_cols, AbsentColumn)
    /\ fitLog = <<>>

\* The combinations of the search that have a fold recorded as failed.
FailedCombinations == {t[1] : t \in gs.failed}

SucceededScores(c) ==
    LET scored(v) == v # ScoreNaN
    IN SelectSeq(gs.scores[c], scored)

\* C18 as stated: the failure of a fold's fit propagates out of the search,
\* no mean is the mean of the succeeded folds only, and a search that
\* completes has scored every fold of every combination.
C18_FailedFoldFailsTheSearch ==
    SearchUnderWay =>
        /\ (\E t \in Recorded : FitRaises(t)) =>
              gs.phase = "failed" /\ raised # ""
        /\ gs.phase \in {"ranked", "done"} =>
              \A c \in FailedCombinations :
                  SucceededScores(c) # <<>> =>
                      gs.means[c] # MeanScore(SucceededScores(c))
        /\ gs.phase = "done" =>
              \A c \in 1 .. Len(gs.candidates) : ScoreNaN \notin Range(gs.scores[c])

\* C18, amended: a fold whose fit fails is never silently skipped, but its
\* failure does not leave the fold: it is recorded as a failed fit whose
\* score is NaN, the evaluations go on, and the mean of its combination is
\* NaN, never the mean of the folds that succeeded, so that the combination
\* ranks after every combination without a failed fold.  The search runs to
\* completion with every fold of every combination scored or recorded as
\* failed, and it fails outright only in the refit of the best combination.
C18_FailedFoldIsRecordedAndTheMeanIsNaN ==
    SearchUnderWay =>
        /\ \A t \in Recorded :
              FitRaises(t) =>
                  /\ t \in gs.failed
                  /\ Len(gs.scores[t[1]]) >= t[2]
                  /\ gs.scores[t[1]][t[2]] = ScoreNaN
        /\ gs.phase = "running" => raised = ""
        /\ gs.phase = "failed" => gs.done = NTasks(gs) /\ gs.means # <<>>
        /\ gs.means # <<>> =>
              /\ gs.done = NTasks(gs)
              /\ \A c \in 1 .. Len(gs.candidates) : Len(gs.scores[c]) = gs.cv
              /\ \A c \in FailedCombinations :
                    /\ gs.means[c] = <<ScoreNaN, 1>>
                    /\ SucceededScores(c) # <<>> =>
                          gs.means[c] # MeanScore(SucceededScores(c))
                    /\ \A d \in 1 .. Len(gs.candidates) :
                          d \notin FailedCombinations => gs.ranks[d] < gs.ranks[c]
        /\ Finished => gs.phase \in {"done", "failed"}

\* The search over the strategy of the categorical imputer is over on a
\* table whose Alley is observed in the first row only: the first fold of
\* most_frequent failed and its other folds were scored, its mean is NaN, and
\* constant, with no failed fold, is the best combination.
C18_Witness ==
    /\ Finished /\ gs.phase = "done" /\ nb = "failed_fold"
    /\ gs.grid = <<GridItem(CatStrategyKey, <<"most_frequent", "constant">>)>>
    /\ gs.failed = {<<1, 1>>}
    /\ Len(SucceededScores(1)) = gs.cv - 1
    /\ gs.means[1] = <<ScoreNaN, 1>>
    /\ gs.best_index = 2 /\ gs.ranks = <<2, 1>>

\* The exception of a mean (median) imputer handed a column of strings.
MeanOfNonNumeric == "ValueError: Cannot use mean strategy with non-numeric data"

HasObjectColumn(T) == \E j \in 1 .. Len(T.cols) : T.cols[j].dtype = "object"

\* A Pipeline whose first step is a mean (median) imputer has just been fit
\* on a table with a column of strings.
MeanOnStringsFit ==
    /\ JustRan("fit") /\ objs[LastStmt.obj].est.kind = "Pipeline"
    /\ objs[LastStmt.obj].est.steps[1].est.kind = "SimpleImputer"
    /\ objs[LastStmt.obj].est.steps[1].est.strategy \in {"mean", "median"}
    /\ HasObjectColumn(frames[LastStmt.in])

\* The same steps under other names or in another place: the first step
\* renamed, and the first two steps exchanged.
StepVariants(est) ==
    { [est EXCEPT !.steps[1].name = "first"],
      [est EXCEPT !.steps[1] = est.steps[2], !.steps[2] = est.steps[1]] }

\* The step whose fit call is the last of a log: its place among the calls
\* and its name.
LastFitStep(log) == <<Len(log), log[Len(log)].step>>

\* The facts of C19 that do not depend on what the exception says: the fit
\* raises in the mean imputer, which was handed the whole table, strings
\* included; that call is the only fit call made, so no later step was fit
\* and none was fit twice; the Pipeline stays unfitted.
FailsAtTheMeanImputer ==
    /\ raised = MeanOfNonNumeric
    /\ Len(fitLog) = 1
    /\ fitLog[1].step = <<LastStmt.obj, objs[LastStmt.obj].est.steps[1].name>>
    /\ fitLog[1].input = frames[LastStmt.in]
    /\ ~objs[LastStmt.obj].fitted /\ objs[LastStmt.obj].learned = <<>>
    /\ fitOn \cap {[flow |-> "fit", rows |-> Range(frames[LastStmt.in].ids)]} # {}

\* C19 as stated: the fit fails at the mean imputer, no later step is fit,
\* nothing is retried, and the failure identifies the offending step: the
\* same steps failing at a step of another name or place raise another
\* failure.
C19_FailureIdentifiesTheStep ==
    MeanOnStringsFit =>
        /\ FailsAtTheMeanImputer
        /\ \A v \in StepVariants(objs[LastStmt.obj].est) :
              LET T == frames[LastStmt.in]
                  r == Fit(v, T, TargetOf(SalePrice, T), <<LastStmt.obj>>)
              IN (r.err # "" /\ LastFitStep(r.log) # LastFitStep(fitLog)) =>
                    r.err # raised

\* C19, amended: the fit fails at the mean imputer with the imputer's
\* ValueError, which names the strategy and not the step or its columns: the
\* same steps under another name or in another place fail at their own mean
\* imputer with the same exception.  No later step is fit and nothing is
\* retried.
C19_FailureNamesTheStrategyOnly ==
    MeanOnStringsFit =>
        /\ FailsAtTheMeanImputer
        /\ \A v \in StepVariants(objs[LastStmt.obj].est) :
              LET T == frames[LastStmt.in]
                  r == Fit(v, T, TargetOf(SalePrice, T), <<LastStmt.obj>>)
              IN /\ r.err = raised
                 /\ LastFitStep(r.log) # LastFitStep(fitLog)
                 /\ StepAt(v, Tail(LastFitStep(r.log)[2])).strategy = "mean"

\* pipe = Pipeline([num_imputer, cat_imputer, lasso]) of summary_2 has been
\* fit on X_train: num_imputer raised, cat_imputer and lasso were not fit.
C19_Witness ==
    /\ MeanOnStringsFit /\ nb = "summary_2" /\ LastStmt.in = "X_train"
    /\ StepNames(objs["pipe"].est) = <<"num_imputer", "cat_imputer", "lasso">>
    /\ raised = MeanOfNonNumeric
    /\ LoggedSteps(fitLog) = <<"num_imputer">>

\* The exception of a Pipeline with a step before the last that is no
\* transformer.
NotATransformer == "TypeError: All intermediate steps should be transformers"

\* Every step of the Pipeline est but the last is a transformer.
OnlyLastMayEstimate(est) ==
    \A i \in 1 .. Len(est.steps) - 1 : IsTransformer(est.steps[i].est)

\* C20: a Pipeline whose fit goes ahead has transformers at every place but
\* the last, where alone an estimator may stand; the fit of a Pipeline with an
\* estimator at another place raises before any of its steps is fit, also the
\* steps that precede the estimator, and the Pipeline stays unfitted.
C20_OnlyTheLastStepMayBeAnEstimator ==
    /\ \A o \in ObjNames :
          (objs[o].fitted /\ objs[o].est.kind = "Pipeline") =>
              OnlyLastMayEstimate(objs[o].est)
    /\ (JustRan("fit") /\ objs[LastStmt.obj].est.kind = "Pipeline") =>
          IF OnlyLastMayEstimate(objs[LastStmt.obj].est)
              THEN raised # NotATransformer
          ELSE /\ raised = NotATransformer
               /\ fitLog = <<>>
               /\ ~objs[LastStmt.obj].fitted
               /\ \A e \in fitOn : e.flow # "fit"
    /\ (gs.phase \in {"running", "ranked", "done"}) => OnlyLastMayEstimate(gs.est)

\* pipe = Pipeline([imputer, lasso, scaler]) has been fit on the numerical
\* columns: the fit raised and the imputer, which stands before the
\* estimator, was not fit.
C20_Witness ==
    /\ JustRan("fit") /\ nb = "estimator_not_last"
    /\ StepNames(objs["pipe"].est) = <<"imputer", "lasso", "scaler">>
    /\ objs["pipe"].est.steps[2].est.kind = "Lasso"
    /\ raised = NotATransformer
    /\ fitLog = <<>> /\ ~objs["pipe"].fitted

----------------------------------------------------------------------------
(* Properties of the search run by a pool of workers *)

\* What the evaluation of fold f of combination c returns when it is run
\* alone, as the single-threaded search runs it.
AloneScore(c, f) ==
    FitAndScore(gs.est, gs.candidates[c], X, SalePrice, gs.cv, f).score

\* The per-fold scores of the single-threaded search, one row per combination
\* in enumeration order.
SequentialScores ==
    [c \in 1 .. Len(gs.candidates) |-> [f \in 1 .. gs.cv |-> AloneScore(c, f)]]

\* The combination and the fold of task t.
TaskOf(t) == <<((t - 1) \div gs.cv) + 1, ((t - 1) % gs.cv) + 1>>

----------------------------------------------------------------------------
(* Properties of the folds *)

\* The identifiers of the rows of X held out in fold f of k.
HeldOutIds(k, f) ==
    {X.ids[p] : p \in Range(TestPositions(Len(X.ids), k, f))}

\* What fitting est on the rows of X outside fold f of k and scoring it on
\* the rows of fold f alone gives; NaN when the fit raises.
ScoreOnFold(est, k, f) ==
    LET train == TakeRows(X, PositionsOf(X, RowIds \ HeldOutIds(k, f)))
        test == TakeRows(X, PositionsOf(X, HeldOutIds(k, f)))
        fit == Fit(est, train, TargetOf(SalePrice, train), <<>>)
    IN IF fit.err # "" THEN ScoreNaN
       ELSE PipelineScore(est, fit.learned, test, TargetOf(SalePrice, test)).score

\* The folds of k are pairwise disjoint, none is empty, and together they
\* hold every row of X.
FoldsPartition(k) ==
    /\ \A f, g \in 1 .. k : f # g => HeldOutIds(k, f) \cap HeldOutIds(k, g) = {}
    /\ \A f \in 1 .. k : HeldOutIds(k, f) # {}
    /\ UNION {HeldOutIds(k, f) : f \in 1 .. k} = RowIds

\* C22: in the k-fold cross-validation of cross_val_score (cv=5) and of every
\* combination of a search, the k held-out folds are pairwise disjoint and
\* cover every row, the pipeline of fold f is fit on exactly the rows of the
\* other folds and scored on fold f alone, and there are exactly k scores.
C22_FoldsPartitionRowsAndScoreTheHeldOut ==
    /\ (JustRan("cross_val_score") /\ raised = "") =>
          /\ FoldsPartition(LastStmt.cv)
          /\ Len(cvScores) = LastStmt.cv
          /\ \A f \in 1 .. LastStmt.cv :
                /\ cvScores[f] = ScoreOnFold(objs[LastStmt.obj].est, LastStmt.cv, f)
                /\ [flow |-> "cross_val_score",
                    rows |-> RowIds \ HeldOutIds(LastStmt.cv, f)] \in fitOn
          /\ \A e \in fitOn :
                e.flow = "cross_val_score" =>
                    \E f \in 1 .. LastStmt.cv : e.rows = RowIds \ HeldOutIds(LastStmt.cv, f)
    /\ \A t \in JustEvaluated :
          gs.scores[t[1]][t[2]] = ScoreOnFold(CandidateEstimator(t[1]), gs.cv, t[2])
    /\ gs.phase = "ranked" =>
          /\ FoldsPartition(gs.cv)
          /\ \A c \in 1 .. Len(gs.candidates) : Len(gs.scores[c]) = gs.cv
          /\ \A e \in fitOn :
                e.flow = "search" =>
                    \E f \in 1 .. gs.cv : e.rows = RowIds \ HeldOutIds(gs.cv, f)
          /\ \A f \in 1 .. gs.cv :
                [flow |-> "search", rows |-> RowIds \ HeldOutIds(gs.cv, f)] \in fitOn

\* cross_val_score(pipe, X, y, cv=5) of the notebook has returned its five
\* scores, and the score of some fold differs from the score the pipeline
\* fit on the training partition gets on the test partition.
C22_Witness ==
    /\ JustRan("cross_val_score") /\ raised = "" /\ nb = "grid_search"
    /\ LastStmt.cv = DefaultCV /\ Len(cvScores) = DefaultCV
    /\ \E f \in 1 .. DefaultCV : cvScores[f] # lastScore
    /\ \E f, g \in 1 .. DefaultCV : cvScores[f] # cvScores[g]

----------------------------------------------------------------------------
(* A Pipeline and the calls written by hand *)

\* lasso.score(X_scale, y_train): the score of the flow written by hand,
\* from the objects and the tables that flow left behind.
HandWrittenScore ==
    LassoScore(objs["lasso"].learned, frames["X_scale"],
               TargetOf(SalePrice, frames["X_scale"])).score

\* pipe = Pipeline([imputer, scaler, lasso]) was fit on X_temp and has just
\* been scored on it, after the same three objects were fit by hand.
PipelineScoredAfterHandWritten ==
    /\ JustRan("score") /\ LastStmt.obj = "pipe" /\ LastStmt.in = "X_temp"
    /\ objs["imputer"].fitted /\ objs["scaler"].fitted /\ objs["lasso"].fitted
    /\ [i \in 1 .. Len(objs["pipe"].est.steps) |-> objs["pipe"].est.steps[i].est]
           = <<objs["imputer"].est, objs["scaler"].est, objs["lasso"].est>>

\* C23: a Pipeline [imputer, scaler, estimator] fit and scored on a table
\* gives what imputer.fit_transform, scaler.fit_transform, estimator.fit and
\* estimator.score written by hand give on the same table: the same learned
\* state in every step and the same score.
C23_PipelineEqualsTheHandWrittenCalls ==
    /\ (JustRan("score") /\ LastStmt.obj = "lasso") =>
          raised = "" /\ lastScore = HandWrittenScore
    /\ PipelineScoredAfterHandWritten =>
          /\ raised = ""
          /\ objs["pipe"].fitted
          /\ objs["pipe"].learned = <<objs["imputer"].learned, objs["scaler"].learned,
                                      objs["lasso"].learned>>
          /\ lastScore = HandWrittenScore

\* The Pipeline of summary_2 has been scored on a training table with missing
\* cells, which the scaler changed after the imputer filled it.
C23_Witness ==
    /\ PipelineScoredAfterHandWritten
    /\ lastScore = HandWrittenScore
    /\ \E j \in 1 .. Len(frames["X_temp"].cols) :
          \E i \in 1 .. Len(frames["X_temp"].ids) :
              IsMissing(frames["X_temp"].cols[j], i)
    /\ frames["X_impute"] # frames["X_temp"]
    /\ frames["X_scale"] # frames["X_impute"]

----------------------------------------------------------------------------
(* Overriding a nested parameter *)

RECURSIVE LeafPaths(_)

\* The paths of step (entry) names that lead to the estimators inside est
\* that have no steps of their own.
LeafPaths(est) ==
    IF est.kind = "Pipeline"
        THEN UNION {{<<est.steps[i].name>> \o q : q \in LeafPaths(est.steps[i].est)} :
                       i \in 1 .. Len(est.steps)}
    ELSE IF est.kind = "ColumnTransformer"
        THEN UNION {{<<est.transformers[k].name>> \o q :
                         q \in LeafPaths(est.transformers[k].est)} :
                       k \in 1 .. Len(est.transformers)}
    ELSE {<<>>}

\* The path of a key without its last name: the step the key reaches.
StepOfKey(key) == SubSeq(key, 1, Len(key) - 1)

\* The last name of a key: the parameter.
ParamOfKey(key) == key[Len(key)]

\* est with value given to the key and nothing else changed: the same steps
\* under the same names, every parameter of every step at its value in est
\* but the one the key names.
OverridesOnly(est, new, key, value) ==
    /\ LeafPaths(new) = LeafPaths(est)
    /\ \A q \in LeafPaths(est) :
          /\ DOMAIN StepAt(new, q) = DOMAIN StepAt(est, q)
          /\ \A p \in DOMAIN StepAt(est, q) :
                StepAt(new, q)[p] = IF q = StepOfKey(key) /\ p = ParamOfKey(key)
                                        THEN value
                                    ELSE StepAt(est, q)[p]

\* C24: overriding a nested parameter by its path changes that parameter of
\* the step the path reaches and nothing else: every other parameter of that
\* step and every parameter of every other step, the step of the same name in
\* the other branch included, keeps its value of the base pipeline.
C24_OverrideChangesOnlyTheParameterReached ==
    (JustRan("GridSearchCV") /\ ~Unresolved(gs.est, gs.grid)) =>
        \A j \in 1 .. Len(gs.grid) :
            \A v \in 1 .. Len(gs.grid[j].values) :
                LET r == SetParam(gs.est, gs.grid[j].key, gs.grid[j].values[v])
                IN /\ r.err = ""
                   /\ OverridesOnly(gs.est, r.est, gs.grid[j].key, gs.grid[j].values[v])

\* The search on the notebook's pipeline has evaluated a combination that
\* gives the numeric imputer a strategy other than the base pipeline's, while
\* the categorical imputer, a step of the same name, keeps its strategy and
\* its fill_value.
C24_Witness ==
    /\ gs.phase = "running" /\ gs.est = pipe /\ gs.done >= 1
    /\ \E c \in 1 .. Len(gs.candidates) :
          /\ Evaluated(c, 1)
          /\ \E i \in 1 .. Len(gs.candidates[c]) :
                LET key == gs.candidates[c][i].key
                    new == SetParam(gs.est, key, gs.candidates[c][i].value).est
                IN /\ key = NumStrategyKey
                   /\ StepAt(new, StepOfKey(key)).strategy # "mean"
                   /\ StepAt(new, <<"preprocess", "cat_pipe", "imputer">>)
                          = SimpleImputer("most_frequent", FALSE, "Missing")

----------------------------------------------------------------------------
(* The search and the pipeline it was built on *)

\* grid_search.fit is under way or over, on a pipeline object that an
\* earlier pipe.fit(X_train, y_train) had fit.
SearchedAfterFit ==
    /\ gs.phase \in {"running", "ranked", "done"}
    /\ objs["pipe"].fitted

\* The pipeline of the search with the parameters of combination c given to
\* the pipeline as cell 3 built it.
OwnClone(c) == SetParams(pipe, gs.candidates[c], 1).est

\* C25: the search evaluates every combination on a clone of its own: the
\* base pipeline object keeps its parameters (strategy='mean',
\* add_indicator=False, the categorical strategy='most_frequent') and the
\* state it learned in pipe.fit(X_train, y_train), and the score of every
\* combination is the score of the base parameters with that combination's
\* values alone, whatever was evaluated before it.
C25_SearchLeavesTheBasePipelineAlone ==
    (SearchedAfterFit /\ Program(nb)[2] = Define("pipe", pipe)) =>
        /\ objs["pipe"].est = pipe
        /\ gs.est = pipe
        /\ StepAt(gs.est, StepOfKey(NumStrategyKey)).strategy = "mean"
        /\ StepAt(gs.est, StepOfKey(NumIndicatorKey)).add_indicator = FALSE
        /\ StepAt(gs.est, StepOfKey(CatStrategyKey)).strategy = "most_frequent"
        /\ gs.phase = "done" =>
              objs["pipe"].learned
                  = Fit(pipe, frames["X_train"], TargetOf(SalePrice, frames["X_train"]),
                        <<>>).learned
        /\ \A t \in JustEvaluated :
              gs.scores[t[1]][t[2]] = ScoreOnFold(OwnClone(t[1]), gs.cv, t[2])

\* The search of the notebook's grid is over, its best combination is not
\* the base pipeline's configuration, and what best_estimator_ learned is not
\* what the base pipeline learned on X_train.
C25_Witness ==
    /\ SearchedAfterFit /\ gs.phase = "done" /\ gs.grid = param
    /\ objs["pipe"].est = pipe
    /\ OwnClone(gs.best_index) # pipe
    /\ gs.best_learned # objs["pipe"].learned
    /\ \E c \in 1 .. Len(gs.candidates) : gs.scores[c] # gs.scores[gs.best_index]

----------------------------------------------------------------------------
(* fill_value *)

\* The imputer of the categorical branch of a pipeline built as `pipe` is.
CatImputer(est) == StepAt(est, StepOfKey(CatStrategyKey))

\* The values of fill_value an imputer of strings may be given.
FillValues == {None, "Missing", "missing_value"}

\* The categorical columns of the rows the fold f of the search is fit on,
\* and of the rows it holds out.
CatTrain(f) == SelectCols(FitRows(X, gs.cv, f), cat_cols)

CatHeldOut(f) == SelectCols(TakeRows(X, TestPositions(Len(X.ids), gs.cv, f)), cat_cols)

\* What the imputer with these parameters, fit on the table train, makes of
\* train and of the table test.
Imputed(params, train, test) ==
    LET fit == ImputerFit(params, train, <<>>)
    IN <<fit.err, fit.out, ImputerTransform(params, fit.learned, test).out>>

\* Every column of T is in out, its missing cells holding value and its
\* other cells what they held.
FilledWith(T, out, value) ==
    /\ Len(out.cols) = Len(T.cols)
    /\ \A j \in 1 .. Len(T.cols) :
          \A i \in 1 .. Len(T.ids) :
              out.cols[j].vals[i] = IF IsMissing(T.cols[j], i) THEN value
                                    ELSE T.cols[j].vals[i]

\* C26: the fill_value='Missing' of the categorical imputer is used if and
\* only if its strategy is 'constant': with 'constant' every missing
\* categorical cell becomes 'Missing', and with 'most_frequent' the output is
\* the same whatever fill_value is.
C26_FillValueIsUsedByConstantOnly ==
    gs.est = pipe =>
        \A t \in JustEvaluated :
            LET params == CatImputer(CandidateEstimator(t[1]))
                train == CatTrain(t[2])
                test == CatHeldOut(t[2])
                made == Imputed(params, train, test)
            IN /\ params.fill_value = "Missing"
               /\ params.strategy \in {"constant", "most_frequent"}
               /\ made[1] = ""
               /\ params.strategy = "constant" =>
                     /\ FilledWith(train, made[2], "Missing")
                     /\ FilledWith(test, made[3], "Missing")
               /\ params.strategy = "most_frequent" =>
                     \A v \in FillValues :
                         Imputed([params EXCEPT !.fill_value = v], train, test) = made

\* The search has evaluated, on rows with a missing categorical cell both in
\* the training folds and in the held-out fold, a combination with the
\* strategy 'constant', and the imputer with 'most_frequent' would have made
\* another table of the same rows.
C26_Witness ==
    /\ gs.est = pipe
    /\ \E t \in JustEvaluated :
          LET params == CatImputer(CandidateEstimator(t[1]))
              train == CatTrain(t[2])
              test == CatHeldOut(t[2])
          IN /\ params.strategy = "constant"
             /\ \E j \in 1 .. Len(train.cols) : HasMissing(train.cols[j])
             /\ \E j \in 1 .. Len(test.cols) : HasMissing(test.cols[j])
             /\ Imputed([params EXCEPT !.strategy = "most_frequent"], train, test)
                    # Imputed(params, train, test)

----------------------------------------------------------------------------
(* add_indicator *)

\* imputer, made with add_indicator=True and fit on X_train[num_cols_with_na],
\* has just transformed a table of those columns.
IndicatorImputerApplied ==
    /\ JustRan("transform") /\ LastStmt.obj = "imputer" /\ raised = ""
    /\ objs["imputer"].est.kind = "SimpleImputer"
    /\ objs["imputer"].est.add_indicator
    /\ frames["X_temp"].cols # <<>>
    /\ \A j \in 1 .. Len(frames["X_temp"].cols) : HasMissing(frames["X_temp"].cols[j])
    /\ ColNames(frames[LastStmt.in]) = ColNames(frames["X_temp"])

\* The names num_cols_with_na + '_NA'.
NamesNA(names) == [j \in 1 .. Len(names) |-> names[j] \o <<"_NA">>]

\* C27: an imputer with add_indicator=True, fit on columns that each have a
\* missing cell in the training data, puts out twice as many columns as it
\* is handed, for the training data and for new data alike: the imputed
\* columns in the order of the input, then one indicator column for every
\* input column in the same order (the names num_cols_with_na, then
\* num_cols_with_na + '_NA').
C27_IndicatorDoublesTheColumns ==
    IndicatorImputerApplied =>
        LET T == frames[LastStmt.in]
            out == frames[LastStmt.out]
            n == Len(T.cols)
        IN /\ Len(out.cols) = 2 * n
           /\ ColNames(out) = ColNames(T) \o NamesNA(ColNames(T))
           /\ out.ids = T.ids
           /\ \A j \in 1 .. n :
                 \A i \in 1 .. Len(T.ids) :
                     /\ out.cols[j].vals[i] # NaNOf("number")
                     /\ ~IsMissing(T.cols[j], i) => out.cols[j].vals[i] = T.cols[j].vals[i]
                     /\ out.cols[n + j].vals[i] = IF IsMissing(T.cols[j], i) THEN Unit ELSE 0

\* The imputer fit on two columns with missing cells has transformed new
\* data in which one of the two has no missing cell, into four columns.
C27_Witness ==
    /\ IndicatorImputerApplied
    /\ LastStmt.in = "X_test_temp"
    /\ Len(frames["X_test_temp"].cols) = 2
    /\ Len(frames["X_test_mean_impute"].cols) = 4
    /\ \E j \in 1 .. 2 : ~HasMissing(frames["X_test_temp"].cols[j])
    /\ \E j \in 1 .. 2 : HasMissing(frames["X_test_temp"].cols[j])

----------------------------------------------------------------------------
(* The order of the combinations *)

\* The grid with its keys declared in the order perm.
Redeclared(grid, perm) == [j \in 1 .. Len(grid) |-> grid[perm[j]]]

\* Two enumerations list the same combinations in the same order, each with
\* the same names in the same order and the same value for every name.
SameCombinations(a, b) ==
    /\ Len(a) = Len(b)
    /\ \A c \in 1 .. Len(a) :
          /\ Len(a[c]) = Len(b[c])
          /\ \A i \in 1 .. Len(a[c]) :
                a[c][i].key = b[c][i].key /\ a[c][i].value = b[c][i].value

\* The item of the grid with this key.
ItemOf(grid, key) == grid[CHOOSE j \in 1 .. Len(grid) : grid[j].key = key]

\* The places, in the declared value lists, of the values of a combination.
ValuePlaces(grid, combination) ==
    [i \in 1 .. Len(combination) |->
        CHOOSE v \in 1 .. Len(ItemOf(grid, combination[i].key).values) :
            ItemOf(grid, combination[i].key).values[v] = combination[i].value]

\* a comes before b in the order that compares the first place first.
PlacesBefore(a, b) ==
    \E j \in 1 .. Len(a) : a[j] < b[j] /\ \A i \in 1 .. j - 1 : a[i] = b[i]

\* A combination of the notebook's grid, by the values of its three keys.
ParamCombination(cat, indicator, num) ==
    << [key |-> CatStrategyKey, value |-> cat],
       [key |-> NumIndicatorKey, value |-> indicator],
       [key |-> NumStrategyKey, value |-> num] >>

\* The search has just enumerated its combinations.
JustEnumerated == gs.phase = "running" /\ gs.done = 0

\* C28: the order of the combinations does not depend on the order in which
\* the keys of the grid were declared: every combination lists the parameter
\* names in sorted order, the last name varies fastest, and the values of a
\* name come in the order of its declared list; the notebook's grid starts
\* with (most_frequent, True, mean) and ends, twelfth, with (constant, False,
\* most_frequent).
C28_CombinationsGoBySortedNamesLastFastest ==
    JustEnumerated =>
        /\ \A perm \in ColumnOrders(Len(gs.grid)) :
              SameCombinations(ParameterGrid(Redeclared(gs.grid, perm)), gs.candidates)
        /\ Len(gs.candidates) = GridSize(gs.grid)
        /\ \A c \in 1 .. Len(gs.candidates) :
              /\ {gs.candidates[c][i].key : i \in 1 .. Len(gs.candidates[c])}
                     = {gs.grid[j].key : j \in 1 .. Len(gs.grid)}
              /\ Len(gs.candidates[c]) = Len(gs.grid)
              /\ \A i \in 1 .. Len(gs.candidates[c]) - 1 :
                    KeyRank(gs.candidates[c][i].key) < KeyRank(gs.candidates[c][i + 1].key)
        /\ \A c, d \in 1 .. Len(gs.candidates) :
              c < d => PlacesBefore(ValuePlaces(gs.grid, gs.candidates[c]),
                                    ValuePlaces(gs.grid, gs.candidates[d]))
        /\ gs.grid = param =>
              /\ SameCombinations(
                     <<gs.candidates[1], gs.candidates[12]>>,
                     <<ParamCombination("most_frequent", TRUE, "mean"),
                       ParamCombination("constant", FALSE, "most_frequent")>>)

\* The search has enumerated the twelve combinations of the notebook's grid,
\* whose keys were declared in another order than the sorted one.
C28_Witness ==
    /\ JustEnumerated /\ gs.grid = param
    /\ Len(gs.candidates) = 12
    /\ gs.grid[1].key = NumStrategyKey
    /\ gs.candidates[1][1].key = CatStrategyKey
    /\ gs.candidates[2] = ParamCombination("most_frequent", TRUE, "median")

----------------------------------------------------------------------------
(* The search and cross_val_score *)

\* The combinations whose values are the base pipeline's own parameters.
BaseCombinations == {c \in 1 .. Len(gs.candidates) : CandidateEstimator(c) = gs.est}

\* The evaluations of the search are over, and cross_val_score had
\* cross-validated the pipeline of the search with the same number of folds.
SearchAfterCrossValidation ==
    /\ gs.phase \in {"ranked", "done"}
    /\ gs.est = pipe
    /\ cvScores # <<>>
    /\ Len(cvScores) = gs.cv

\* C29: the scores of the folds of the combination whose values are the base
\* pipeline's own (most_frequent, False, mean; the fourth of the notebook's
\* grid) are, fold by fold, the scores cross_val_score(pipe, X, y, cv=5)
\* returned for the base pipeline on the same data with the same k.
C29_BaseCombinationScoresAsCrossValScore ==
    SearchAfterCrossValidation =>
        /\ BaseCombinations # {}
        /\ gs.grid = param =>
              /\ BaseCombinations = {4}
              /\ gs.candidates[4] = ParamCombination("most_frequent", FALSE, "mean")
        /\ \A c \in BaseCombinations :
              \A f \in 1 .. gs.cv : gs.scores[c][f] = cvScores[f]

\* The search of the notebook's grid with five folds is over, the scores of
\* its fourth combination differ from fold to fold, and another combination
\* has other scores.
C29_Witness ==
    /\ SearchAfterCrossValidation /\ gs.grid = param /\ gs.cv = DefaultCV
    /\ gs.scores[4] = cvScores
    /\ \E f, g \in 1 .. gs.cv : gs.scores[4][f] # gs.scores[4][g]
    /\ \E c \in 1 .. Len(gs.candidates) : gs.scores[c] # gs.scores[4]

====
